---- MODULE Spec2Model ----
(***************************************************************************)
(* Model of the DPS inbound reconciliation pipeline (src/DPS/receivedps.py)*)
(* join_dps_cps -> filter_valid_cases -> handle_status_and_deduplicate ->  *)
(* generate_output_files, run in the order of main().                      *)
(*                                                                         *)
(* Dates are integers YYYYMMDD (the order of the ISO strings the code      *)
(* manipulates); NaT is the null date.  Names are sequences of characters. *)
(***************************************************************************)
EXTENDS Integers, Sequences, FiniteSets, TLC

VARIABLES pc, dps_data, cps_data, cps_pid, start_date, end_date,
          dps_joined, dps_total, total_events, log,
          sa_98, toad_data, cnty_lookup, not_in_impact, not_in_dps,
          run_date, fiscal_year, quarter, query_period, fy_start_dt, fy_end_dt,
          filtered_data, processed_data, final_data, txt_file,
          script, disk, archived, remote, shared, mail, faults, exc,
          fetched_files, sharepoint_enabled, sharepoint_success,
          sharepoint_error, uploaded_urls, sftp_upload_success, sftp_error,
          upload_success, upload_error

vars == <<pc, dps_data, cps_data, cps_pid, start_date, end_date,
          dps_joined, dps_total, total_events, log,
          sa_98, toad_data, cnty_lookup, not_in_impact, not_in_dps,
          run_date, fiscal_year, quarter, query_period, fy_start_dt, fy_end_dt,
          filtered_data, processed_data, final_data, txt_file,
          script, disk, archived, remote, shared, mail, faults, exc,
          fetched_files, sharepoint_enabled, sharepoint_success,
          sharepoint_error, uploaded_urls, sftp_upload_success, sftp_error,
          upload_success, upload_error>>

(* the tables of the outbound run (send2dps.py) *)
send == <<filtered_data, processed_data, final_data, txt_file>>

(* the reporting period main() derives from the run date, and the tables *)
(* of the reconciliation                                                  *)
period == <<run_date, fiscal_year, quarter, query_period, fy_start_dt, fy_end_dt>>
tables == <<dps_data, cps_data, cps_pid, dps_joined, dps_total, total_events, log>>

(* the tables read by query_database_data and the two exception reports *)
db == <<sa_98, toad_data, cnty_lookup>>
reports == <<not_in_impact, not_in_dps>>

(* the state of a run of main(): the program, the files on the local disk, *)
(* in the archive, on the SFTP server and on SharePoint or the network     *)
(* drive, the mails sent, the calls that failed, the exception that left   *)
(* the try block, and the locals of the two main()                         *)
run == <<script, disk, archived, remote, shared, mail, faults, exc,
         fetched_files, sharepoint_enabled, sharepoint_success,
         sharepoint_error, uploaded_urls, sftp_upload_success, sftp_error,
         upload_success, upload_error>>

(* the tables and the period, which the steps of a run leave alone here *)
pipeline == <<dps_data, cps_data, cps_pid, dps_joined, dps_total, total_events,
              db, reports, period, start_date, end_date, send>>

NoException == "none"
NoError == "None"

(* the values of the variables of a run while no run is modelled *)
NotRunning ==
    /\ script = "none" /\ disk = {} /\ archived = {} /\ remote = {} /\ shared = {}
    /\ mail = << >> /\ faults = {} /\ exc = NoException /\ fetched_files = {}
    /\ sharepoint_enabled = FALSE /\ sharepoint_success = FALSE
    /\ sharepoint_error = NoError /\ uploaded_urls = {}
    /\ sftp_upload_success = FALSE /\ sftp_error = NoError
    /\ upload_success = FALSE /\ upload_error = NoError


(* a record written by log.info / log.warning: the message, the counts and *)
(* the field values interpolated into it                                   *)
LogRecord(level, msg, nums, strs) ==
    [level |-> level, msg |-> msg, nums |-> nums, strs |-> strs]

(***************************************************************************)
(* Null values of pandas columns.                                          *)
(***************************************************************************)
NaT == 0
NaN == 0
NullName == <<"NaN">>
FarFuture == 22000101

IsNull(d) == d = NaT

(* Comparisons of object columns: a null operand makes the comparison False *)
Ge(a, b) == a # NaT /\ b # NaT /\ a >= b
Le(a, b) == a # NaT /\ b # NaT /\ a <= b
Gt(a, b) == a # NaT /\ b # NaT /\ a > b

(***************************************************************************)
(* Generic table helpers.                                                  *)
(***************************************************************************)
Range(s) == {s[i] : i \in 1..Len(s)}

(* lexicographic order on equal-length tuples of integers *)
LexLess(a, b) ==
    \E i \in 1..Len(a) : (\A j \in 1..(i-1) : a[j] = b[j]) /\ a[i] < b[i]

(* DataFrame.sort_values on several columns: stable; keys[i] is the tuple *)
(* of sort keys of rows[i], nulls already mapped behind every value      *)
SortValues(rows, keys) ==
    LET n == Len(rows)
        pos(i) == Cardinality({j \in 1..n :
                     \/ LexLess(keys[j], keys[i])
                     \/ (keys[j] = keys[i] /\ j < i)}) + 1
    IN [p \in 1..n |-> rows[CHOOSE i \in 1..n : pos(i) = p]]

(* DataFrame.drop_duplicates: keep the first occurrence of every row *)
DropDuplicates(rows) ==
    LET keep == {i \in 1..Len(rows) : \A j \in 1..(i-1) : rows[j] # rows[i]}
        kth(k) == CHOOSE i \in keep : Cardinality({j \in keep : j < i}) = k - 1
    IN [k \in 1..Cardinality(keep) |-> rows[kth(k)]]

(* concatenation of a sequence of sequences *)
RECURSIVE Flatten(_)
Flatten(ss) == IF ss = << >> THEN << >> ELSE Head(ss) \o Flatten(Tail(ss))

(***************************************************************************)
(* load_and_prepare_data: every cell of the DPS file is stripped of        *)
(* leading and trailing whitespace; the CPS workbook is read as it is      *)
(***************************************************************************)
RECURSIVE LStrip(_)
LStrip(s) == IF s # << >> /\ Head(s) = " " THEN LStrip(Tail(s)) ELSE s

RECURSIVE RStrip(_)
RStrip(s) ==
    IF s # << >> /\ s[Len(s)] = " " THEN RStrip(SubSeq(s, 1, Len(s) - 1)) ELSE s

Strip(s) == RStrip(LStrip(s))

LoadDps(rows) ==
    [i \in 1..Len(rows) |-> [rows[i] EXCEPT !.CPS_NAME = Strip(rows[i].CPS_NAME)]]

(***************************************************************************)
(* transform_data                                                          *)
(***************************************************************************)
RemoveSpaces(name) == SelectSeq(name, LAMBDA c : c # " ")

TransformDps(rows) ==
    [i \in 1..Len(rows) |->
        [rows[i] EXCEPT !.CPS_NAME = RemoveSpaces(rows[i].CPS_NAME)]]

TransformCps(rows) ==
    LET filled == [i \in 1..Len(rows) |->
                     [rows[i] EXCEPT !.Exited_Care =
                         IF IsNull(rows[i].Exited_Care) THEN FarFuture
                                                        ELSE rows[i].Exited_Care]]
    IN SelectSeq(filled, LAMBDA r : ~IsNull(r.Date_of_Birth) \/ r.Name # NullName)

(***************************************************************************)
(* prepare_cps_for_join                                                    *)
(***************************************************************************)
AsStr(name) == IF name = NullName THEN <<"n", "a", "n">> ELSE name

PrepareCpsForJoin(rows) ==
    DropDuplicates([i \in 1..Len(rows) |->
                      [rows[i] EXCEPT !.Name = AsStr(rows[i].Name)]])

(***************************************************************************)
(* join_dps_cps: pd.merge(how='left') on (CPS_NAME, CPS_DOB) =             *)
(* (Name, Date_of_Birth); null keys match null keys                        *)
(***************************************************************************)
KeyMatch(ev, p) == ev.CPS_NAME = p.Name /\ ev.CPS_DOB = p.Date_of_Birth

Linked(ev, p) ==
    [CPS_NAME |-> ev.CPS_NAME, CPS_DOB |-> ev.CPS_DOB,
     LAST_CONT |-> ev.LAST_CONT, LOCATE_DT |-> ev.LOCATE_DT,
     CLR_CAN_DT |-> ev.CLR_CAN_DT, STS |-> ev.STS,
     Name |-> p.Name, Date_of_Birth |-> p.Date_of_Birth,
     Person_ID |-> p.Person_ID, Entered_Care |-> p.Entered_Care,
     Exited_Care |-> p.Exited_Care]

NullPerson ==
    [Name |-> NullName, Date_of_Birth |-> NaT, Person_ID |-> NaN,
     Entered_Care |-> NaT, Exited_Care |-> NaT]

MatchesOf_Inner(ev, persons) ==
    LET m == SelectSeq(persons, LAMBDA p : KeyMatch(ev, p))
    IN [k \in 1..Len(m) |-> Linked(ev, m[k])]

MatchesOf(ev, persons) ==
    LET m == SelectSeq(persons, LAMBDA p : KeyMatch(ev, p))
    IN IF m = << >> THEN << Linked(ev, NullPerson) >>
       ELSE [k \in 1..Len(m) |-> Linked(ev, m[k])]

JoinDpsCps(events, persons) ==
    Flatten([i \in 1..Len(events) |-> MatchesOf(events[i], persons)])

(***************************************************************************)
(* filter_valid_cases                                                      *)
(***************************************************************************)
YearOf(d) == d \div 10000
MonthOf(d) == (d % 10000) \div 100
DayOf(d) == d % 100
MkDate(y, m, d) == y * 10000 + m * 100 + d

IsLeap(y) == (y % 4 = 0 /\ y % 100 # 0) \/ y % 400 = 0

DaysInMonth(y, m) ==
    IF m = 2 THEN (IF IsLeap(y) THEN 29 ELSE 28)
    ELSE IF m \in {4, 6, 9, 11} THEN 30 ELSE 31

ReplaceFeb29_None(d) == d

(* dob_str.str.replace('-02-29', '-03-01') on the ISO string of the date *)
ReplaceFeb29(d) ==
    IF IsNull(d) THEN NaT
    ELSE IF MonthOf(d) = 2 /\ DayOf(d) = 29 THEN MkDate(YearOf(d), 3, 1)
    ELSE d

(* add_years: d.replace(year=...) raises ValueError on an invalid date, *)
(* the handler then retries with day=28                                  *)
add_years(d, years) ==
    LET y == YearOf(d) + years
    IN IF DayOf(d) <= DaysInMonth(y, MonthOf(d))
       THEN MkDate(y, MonthOf(d), DayOf(d))
       ELSE MkDate(y, MonthOf(d), 28)

Turn18(dob) ==
    LET adj == ReplaceFeb29(dob)
    IN IF IsNull(adj) THEN NaT ELSE add_years(adj, 18)

AgeKeep_Ge(r) == IsNull(r.DT_turn_18) \/ Ge(r.DT_turn_18, r.LAST_CONT)

AgeKeep(r) == IsNull(r.DT_turn_18) \/ Gt(r.DT_turn_18, r.LAST_CONT)

FilterValidCases(rows) ==
    LET ext == [i \in 1..Len(rows) |->
                  rows[i] @@ [CPS_DOB_adj |-> ReplaceFeb29(rows[i].CPS_DOB),
                              DT_turn_18 |-> Turn18(rows[i].CPS_DOB)]]
    IN SelectSeq(ext, AgeKeep)

(***************************************************************************)
(* handle_status_and_deduplicate                                           *)
(***************************************************************************)
(* map() without the fillna(): an unmapped status is lost *)
Recode_NoFillna(s) ==
    CASE s = "ACTV" -> "2ACTV"
      [] s = "CANC" -> "4CANC"
      [] s = "CLRD" -> "3CLRD"
      [] s = "LOC"  -> "1LOC"
      [] OTHER      -> ""

Recode(s) ==
    CASE s = "ACTV" -> "2ACTV"
      [] s = "CANC" -> "4CANC"
      [] s = "CLRD" -> "3CLRD"
      [] s = "LOC"  -> "1LOC"
      [] OTHER      -> s

(* position of a status string in the string order used by sort_values: *)
(* '' < '1LOC' < '2ACTV' < '3CLRD' < '4CANC' < any string starting with *)
(* an upper-case letter                                                  *)
StsOrd(s) ==
    CASE s = ""      -> 0
      [] s = "1LOC"  -> 1
      [] s = "2ACTV" -> 2
      [] s = "3CLRD" -> 3
      [] s = "4CANC" -> 4
      [] s = "ACTV"  -> 5
      [] s = "CANC"  -> 6
      [] s = "CLRD"  -> 7
      [] s = "LOC"   -> 8
      [] OTHER       -> 9

(* sort_values puts nulls after every value *)
NullsLast(v) == IF v = 0 THEN 99999999 ELSE v

IsNullAt(col, v) ==
    CASE col \in {"STS", "CPS_NAME"} -> FALSE
      [] col = "Name"                -> v = NullName
      [] OTHER                       -> v = 0

(* GroupBy.first(): per column, the first non-null value of the group *)
FirstNonNull(group, col) ==
    LET idx == {i \in 1..Len(group) : ~IsNullAt(col, group[i][col])}
    IN IF idx = {} THEN group[1][col]
       ELSE group[CHOOSE i \in idx : \A j \in idx : i <= j][col]

(* df.groupby(by, as_index=False).first(): rows with a null key are      *)
(* dropped, the groups come out in ascending key order                   *)
GroupByFirst(rows, by) ==
    LET G(r) == [k \in 1..Len(by) |-> r[by[k]]]
        valid == SelectSeq(rows, LAMBDA r : \A k \in 1..Len(by) : r[by[k]] # 0)
        keys  == {G(valid[i]) : i \in 1..Len(valid)}
        kth(n) == CHOOSE k \in keys :
                     Cardinality({k2 \in keys : LexLess(k2, k)}) = n - 1
        grp(k) == SelectSeq(valid, LAMBDA r : G(r) = k)
    IN [n \in 1..Cardinality(keys) |->
          [col \in DOMAIN grp(kth(n))[1] |-> FirstNonNull(grp(kth(n)), col)]]

KeyPidLc_NoSts(r) == <<NullsLast(r.Person_ID), NullsLast(r.LAST_CONT), 0>>
KeyPidLcSts(r) == <<NullsLast(r.Person_ID), NullsLast(r.LAST_CONT), StsOrd(r.STS)>>
KeyPidLc_Asc(r) == <<NullsLast(r.Person_ID), r.LAST_CONT>>
KeyPidLcDesc(r) == <<NullsLast(r.Person_ID), 0 - r.LAST_CONT>>
KeyFinal(r) == <<NullsLast(r.Person_ID), NullsLast(r.LAST_CONT), StsOrd(r.STS),
                 NullsLast(r.CombDate)>>
ByPidLc == <<"Person_ID", "LAST_CONT">>
ByPid == <<"Person_ID">>

Mask_NoEpisode(r, sd, ed) ==
    /\ \/ Ge(r.LAST_CONT, sd)
       \/ (Le(r.LAST_CONT, sd) /\ IsNull(r.LOCATE_DT) /\ IsNull(r.CLR_CAN_DT))
       \/ (Le(r.LAST_CONT, sd) /\ (Ge(r.LOCATE_DT, sd) \/ Ge(r.CLR_CAN_DT, sd)))
    /\ Le(r.LAST_CONT, ed)

Mask(r, sd, ed) ==
    /\ \/ Ge(r.LAST_CONT, sd)
       \/ (Le(r.LAST_CONT, sd) /\ IsNull(r.LOCATE_DT) /\ IsNull(r.CLR_CAN_DT))
       \/ (Le(r.LAST_CONT, sd) /\ (Ge(r.LOCATE_DT, sd) \/ Ge(r.CLR_CAN_DT, sd)))
    /\ Le(r.LAST_CONT, ed)
    /\ Le(r.LAST_CONT, r.Exited_Care)
    /\ Ge(r.LAST_CONT, r.Entered_Care)

DroppedCols == {"FULL_NAME", "CPS_NAME", "DOE", "ORI", "DT_turn_18", "CPS_DOB_adj"}

DropCols(r) == [col \in (DOMAIN r) \ DroppedCols |-> r[col]]

CombDate(r) == IF IsNull(r.LOCATE_DT) THEN r.CLR_CAN_DT ELSE r.LOCATE_DT

(* first collapse: one row per (Person_ID, LAST_CONT) *)
Phase1(rows) ==
    LET rec == [i \in 1..Len(rows) |->
                  [rows[i] EXCEPT !.STS = Recode(rows[i].STS)]]
    IN GroupByFirst(SortValues(rec, [i \in 1..Len(rec) |-> KeyPidLcSts(rec[i])]), ByPidLc)

Phase2_NoCollapse(rows) ==
    SortValues(rows, [i \in 1..Len(rows) |-> KeyPidLcDesc(rows[i])])
(* second collapse: one row per Person_ID, latest LAST_CONT first *)
Phase2(rows) ==
    GroupByFirst(SortValues(rows, [i \in 1..Len(rows) |-> KeyPidLcDesc(rows[i])]), ByPid)

HandleStatus_KeepUnmatched(rows, sd, ed) ==
    LET dps_total_2 == Phase2(Phase1(rows))
        masked  == SelectSeq(dps_total_2, LAMBDA r : Mask(r, sd, ed))
        cleaned == DropDuplicates([i \in 1..Len(masked) |-> DropCols(masked[i])])
        comb    == [i \in 1..Len(cleaned) |->
                      cleaned[i] @@ [CombDate |-> CombDate(cleaned[i])]]
        nomatch == SelectSeq(rows, LAMBDA r : r.Person_ID = NaN)
    IN GroupByFirst(SortValues(comb, [i \in 1..Len(comb) |-> KeyFinal(comb[i])]), ByPidLc)
       \o [i \in 1..Len(nomatch) |->
             DropCols([nomatch[i] EXCEPT !.STS = Recode(nomatch[i].STS)])
                @@ [CombDate |-> CombDate(nomatch[i])]]

HandleStatusAndDeduplicate(rows, sd, ed) ==
    LET dps_total_2 == Phase2(Phase1(rows))
        masked  == SelectSeq(dps_total_2, LAMBDA r : Mask(r, sd, ed))
        cleaned == DropDuplicates([i \in 1..Len(masked) |-> DropCols(masked[i])])
        comb    == [i \in 1..Len(cleaned) |->
                      cleaned[i] @@ [CombDate |-> CombDate(cleaned[i])]]
    IN GroupByFirst(SortValues(comb, [i \in 1..Len(comb) |-> KeyFinal(comb[i])]), ByPidLc)

(***************************************************************************)
(* generate_output_files                                                   *)
(*                                                                         *)
(* An identifier read from the database is a number or a string; Person_ID *)
(* of the canonical cases is a number (NaN for no person).                 *)
(***************************************************************************)
NoneStr == "None"

NumId(n) == [kind |-> "num", val |-> n, text |-> << >>]
StrId(t) == [kind |-> "str", val |-> 0, text |-> t]

Digits == <<"0", "1", "2", "3", "4", "5", "6", "7", "8", "9">>

RECURSIVE StrOfInt(_)
StrOfInt(n) ==
    IF n < 10 THEN <<Digits[n + 1]>>
    ELSE StrOfInt(n \div 10) \o <<Digits[(n % 10) + 1]>>

(* Series.astype(str): an int64 column gives '1', a float64 column '1.0', *)
(* a string is left as it is                                              *)
PidAsStr(pid, isfloat) ==
    IF isfloat THEN StrOfInt(pid) \o <<".", "0">> ELSE StrOfInt(pid)

IdAsStr(id) == IF id.kind = "num" THEN StrOfInt(id.val) ELSE id.text

(* the merge of join_dps_cps turns Person_ID into a float64 column when   *)
(* an event found no person                                               *)
PidIsFloat(events, persons) ==
    \E r \in Range(JoinDpsCps(events, persons)) : r.Person_ID = NaN

(* Series.isin: equality of the values, a number never equals a string *)
PidIsIn(pid, ids) ==
    \E i \in 1..Len(ids) : ids[i].kind = "num" /\ ids[i].val = pid

IdIsIn(id, pids) == id.kind = "num" /\ id.val \in pids

(* columns 0, 2 and 3 of toad_data, renamed, Person_ID as a string *)
ToadSubset(toad) ==
    [i \in 1..Len(toad) |->
        [Person_ID |-> IdAsStr(toad[i].ID_SA_PERSON),
         Legal_County |-> toad[i].DECODE,
         Name |-> toad[i].NM_PERSON_NAME]]

(* a canonical case next to one row of toad_subset: both tables have a    *)
(* Name column, which the merge renames Name_x and Name_y                 *)
CountyRow(c, pidstr, county, name) ==
    [col \in ((DOMAIN c) \ {"Name"}) \cup {"Name_x", "Name_y", "Legal_County"} |->
        CASE col = "Person_ID"    -> pidstr
          [] col = "Name_x"       -> c.Name
          [] col = "Name_y"       -> name
          [] col = "Legal_County" -> county
          [] OTHER                -> c[col]]

WithCounty_Inner(c, pidstr, subset) ==
    LET m == SelectSeq(subset, LAMBDA t : t.Person_ID = pidstr)
    IN [k \in 1..Len(m) |-> CountyRow(c, pidstr, m[k].Legal_County, m[k].Name)]

(* pd.merge(not_in_impact, toad_subset, on='Person_ID', how='left') *)
WithCounty(c, pidstr, subset) ==
    LET m == SelectSeq(subset, LAMBDA t : t.Person_ID = pidstr)
    IN IF m = << >> THEN << CountyRow(c, pidstr, NoneStr, NullName) >>
       ELSE [k \in 1..Len(m) |-> CountyRow(c, pidstr, m[k].Legal_County, m[k].Name)]

(* pd.merge(not_in_impact, cnty_lookup, on='Legal_County', how='left') *)
WithRegion(r, lookup) ==
    LET m == SelectSeq(lookup, LAMBDA l : l.Legal_County = r.Legal_County)
    IN IF m = << >> THEN << r @@ [Legal_Region |-> NoneStr] >>
       ELSE [k \in 1..Len(m) |-> r @@ [Legal_Region |-> m[k].Legal_Region]]

(* Output 2: the canonical cases whose person is not on the roster *)
NotInImpact(total, sa, toad, lookup, isfloat) ==
    LET ids   == [i \in 1..Len(sa) |-> sa[i].CHILD_PID]
        sel   == SelectSeq(total, LAMBDA c : ~PidIsIn(c.Person_ID, ids))
        withc == Flatten([i \in 1..Len(sel) |->
                    WithCounty(sel[i], PidAsStr(sel[i].Person_ID, isfloat),
                               ToadSubset(toad))])
        withr == Flatten([i \in 1..Len(withc) |-> WithRegion(withc[i], lookup)])
    IN [i \in 1..Len(withr) |-> withr[i] @@ [Outcome |-> ""]]

ActiveLegalStatuses ==
    {"TMC", "PMC/ Rts Not Term", "PMC/ Rts Term (All)",
     "PMC/ Rts Term (Mother)", "PMC/Rts Term (Father)"}

Sa98Active_AnyRecovery(sa) ==
    SelectSeq(sa, LAMBDA e :
        e.LEGAL_STATUS \in ActiveLegalStatuses \/ e.LEGAL_STATUS = NoneStr)

Sa98Active(sa) ==
    SelectSeq(sa, LAMBDA e :
        /\ IsNull(e.DT_RECOVERED)
        /\ e.LEGAL_STATUS \in ActiveLegalStatuses \/ e.LEGAL_STATUS = NoneStr)

DpsActive(total) == SelectSeq(total, LAMBDA c : c.STS = "2ACTV")

(* Output 3: the active roster entries whose person has no active case *)
NotInDps(total, sa) ==
    LET act == {c.Person_ID : c \in Range(DpsActive(total))}
        sel == SelectSeq(Sa98Active(sa), LAMBDA e : ~IdIsIn(e.CHILD_PID, act))
    IN [i \in 1..Len(sel) |-> sel[i] @@ [Outcome |-> ""]]

(***************************************************************************)
(* The reporting period (src/DPS/util.py), computed by main() from the run *)
(* date before any table is read.                                          *)
(***************************************************************************)
(* the quarter returned for a full fiscal year (None) *)
NoQuarter == 0

get_fiscal_year(date_obj, fiscal_start_month) ==
    IF MonthOf(date_obj) >= fiscal_start_month THEN YearOf(date_obj) + 1
    ELSE YearOf(date_obj)

quarter_map(m) ==
    CASE m \in {12, 1, 2}  -> 1
      [] m \in {3, 4, 5}   -> 2
      [] m \in {6, 7, 8}   -> 3
      [] m \in {9, 10, 11} -> 4

(* f"FY{fiscal_year}" and f"FY{fiscal_year}_Q{quarter}" *)
PeriodLabel(fy, q) ==
    <<"F", "Y">> \o StrOfInt(fy)
       \o (IF q = NoQuarter THEN << >> ELSE <<"_", "Q">> \o StrOfInt(q))

get_query_period_After20(rd) ==
    LET current_fiscal_year == get_fiscal_year(rd, 9)
        run_month == MonthOf(rd)
    IN IF run_month = 9 /\ DayOf(rd) > 20
       THEN [fiscal_year |-> current_fiscal_year - 1, quarter |-> NoQuarter,
             query_period |-> PeriodLabel(current_fiscal_year - 1, NoQuarter)]
       ELSE LET fy == IF run_month \in {9, 10, 11} THEN current_fiscal_year - 1
                      ELSE current_fiscal_year
            IN [fiscal_year |-> fy, quarter |-> quarter_map(run_month),
                query_period |-> PeriodLabel(fy, quarter_map(run_month))]

get_query_period(rd) ==
    LET current_fiscal_year == get_fiscal_year(rd, 9)
        run_month == MonthOf(rd)
    IN IF run_month = 9 /\ DayOf(rd) >= 20
       THEN [fiscal_year |-> current_fiscal_year - 1, quarter |-> NoQuarter,
             query_period |-> PeriodLabel(current_fiscal_year - 1, NoQuarter)]
       ELSE LET fy == IF run_month \in {9, 10, 11} THEN current_fiscal_year - 1
                      ELSE current_fiscal_year
            IN [fiscal_year |-> fy, quarter |-> quarter_map(run_month),
                query_period |-> PeriodLabel(fy, quarter_map(run_month))]

get_fiscal_year_dates(fy) == <<MkDate(fy - 1, 9, 1), MkDate(fy, 8, 31)>>

Returned(dates) == [raised |-> FALSE, dates |-> dates]
ValueError == [raised |-> TRUE, dates |-> <<NaT, NaT>>]

(* the fourth quarter as the months June to August *)
get_quarter_dates_Q4Summer(fy, q) ==
    CASE q = 1 -> Returned(<<MkDate(fy - 1, 9, 1), MkDate(fy - 1, 11, 30)>>)
      [] q = 2 -> Returned(<<MkDate(fy - 1, 12, 1), MkDate(fy, 2, 28)>>)
      [] q = 3 -> Returned(<<MkDate(fy, 3, 1), MkDate(fy, 5, 31)>>)
      [] q = 4 -> Returned(<<MkDate(fy, 6, 1), MkDate(fy, 8, 31)>>)
      [] OTHER -> ValueError

get_quarter_dates(fy, q) ==
    CASE q = 1 -> Returned(<<MkDate(fy - 1, 9, 1), MkDate(fy - 1, 11, 30)>>)
      [] q = 2 -> Returned(<<MkDate(fy - 1, 12, 1), MkDate(fy, 2, 28)>>)
      [] q = 3 -> Returned(<<MkDate(fy, 3, 1), MkDate(fy, 5, 31)>>)
      [] q = 4 -> Returned(get_fiscal_year_dates(fy))
      [] OTHER -> ValueError

(* the lines main() logs while it derives the period *)
PeriodLog(fy, q, sd, ed) ==
    << LogRecord("info", "Query period", <<fy, q>>, << >>),
       LogRecord("info", "Fiscal year dates", get_fiscal_year_dates(fy), << >>),
       LogRecord("info", "Date range for filtering", <<sd, ed>>, << >>) >>

(* the filtering window of main(): the quarter, or the fiscal year when *)
(* `quarter` is None                                                     *)
FilterWindow(fy, q) ==
    IF q # NoQuarter THEN get_quarter_dates(fy, q).dates
    ELSE get_fiscal_year_dates(fy)

(***************************************************************************)
(* The outbound roster (src/DPS/send2dps.py): process_names,               *)
(* create_final_dataset and write_fixed_width_file.  A name is a sequence  *)
(* of characters; "e_acute" stands for one accented letter.                *)
(***************************************************************************)
UpperCase ==
    {"A", "B", "C", "D", "E", "F", "G", "H", "I", "J", "K", "L", "M",
     "N", "O", "P", "Q", "R", "S", "T", "U", "V", "W", "X", "Y", "Z"}
LowerCase == {"a", "b", "c", "d", "e", "n"}
AlnumOrSpace == UpperCase \cup LowerCase \cup Range(Digits) \cup {" "}

(* unidecode(): the ASCII letter of an accented letter *)
Unidecode(name) ==
    [i \in 1..Len(name) |-> IF name[i] = "e_acute" THEN "e" ELSE name[i]]

(* str.upper() *)
UpperChar(c) ==
    CASE c = "a" -> "A"
      [] c = "b" -> "B"
      [] c = "c" -> "C"
      [] c = "d" -> "D"
      [] c = "e" -> "E"
      [] c = "n" -> "N"
      [] OTHER   -> c

StrUpper(name) == [i \in 1..Len(name) |-> UpperChar(name[i])]

(* str.replace(ch, '') *)
RemoveChar(s, ch) == SelectSeq(s, LAMBDA c : c # ch)

(* str.replace(r'[^A-Za-z0-9 ]', '', regex=True) *)
KeepAlnumOrSpace(s) == SelectSeq(s, LAMBDA c : c \in AlnumOrSpace)

(* str.split(delimiter, n): at most n splits, from the left *)
RECURSIVE SplitN(_, _, _)
SplitN(s, delimiter, n) ==
    IF n = 0 \/ delimiter \notin Range(s) THEN <<s>>
    ELSE LET i == CHOOSE k \in 1..Len(s) :
                     s[k] = delimiter /\ \A j \in 1..(k - 1) : s[j] # delimiter
         IN <<SubSeq(s, 1, i - 1)>>
               \o SplitN(SubSeq(s, i + 1, Len(s)), delimiter, n - 1)

(* the complement of the mask of filter_blank_values on one cell *)
IsBlank(v) == v = NullName \/ Strip(v) = << >>

filter_blank_values(df, col_names) ==
    SelectSeq(df, LAMBDA r : \A k \in 1..Len(col_names) : ~IsBlank(r[col_names[k]]))

split_name_by_delimiter(df, col_name, delimiter, max_parts, exclude, remove_delimiter) ==
    LET has(r) == r[col_name] # NullName /\ delimiter \in Range(r[col_name])
        parts(r) == SplitN(r[col_name], delimiter, max_parts - 1)
        exploded == Flatten([i \in 1..Len(df) |->
                       IF has(df[i])
                       THEN [k \in 1..Len(parts(df[i])) |->
                               [df[i] EXCEPT ![col_name] = parts(df[i])[k]]]
                       ELSE << >>])
        kept == SelectSeq(exploded, LAMBDA r :
                    ~IsBlank(r[col_name]) /\ r[col_name] \notin exclude)
        result == df \o kept
    IN IF \A i \in 1..Len(df) : ~has(df[i]) THEN df
       ELSE IF remove_delimiter
            THEN [i \in 1..Len(result) |->
                    [result[i] EXCEPT ![col_name] =
                        IF @ = NullName THEN @ ELSE RemoveChar(@, delimiter)]]
            ELSE result

exclude_list ==
    {<<"L", "A">>, <<"M", "C">>, <<"D", "E">>, <<"S", "T">>, <<"S", "T", ".">>,
     <<"D", "E", "L">>, <<"J", "R">>, <<"J", "R", ".">>, <<"A">>, <<"O">>}

process_double_barrel_last_names(df) ==
    LET hyph   == split_name_by_delimiter(df, "Last_Name", "-", 2, {}, TRUE)
        spaced == split_name_by_delimiter(hyph, "Last_Name", " ", 5, exclude_list, FALSE)
        clean  == [i \in 1..Len(spaced) |->
                     [spaced[i] EXCEPT !.Last_Name =
                         KeepAlnumOrSpace(RemoveChar(@, " "))]]
    IN filter_blank_values(clean, <<"Last_Name">>)

process_double_first_names(df) ==
    LET hyph   == split_name_by_delimiter(df, "First_Name", "-", 2, {}, TRUE)
        apos   == split_name_by_delimiter(hyph, "First_Name", "'", 2, {}, TRUE)
        mid    == [i \in 1..Len(apos) |->
                     [apos[i] EXCEPT !.Middle_Name = KeepAlnumOrSpace(@)]]
        spaced == split_name_by_delimiter(mid, "First_Name", " ", 3, {}, TRUE)
        nonbl  == filter_blank_values(spaced, <<"First_Name">>)
        mid2   == [i \in 1..Len(nonbl) |->
                     [nonbl[i] EXCEPT !.Middle_Name = RemoveChar(@, " ")]]
        long   == SelectSeq(mid2, LAMBDA r : Len(r.First_Name) > 2)
        named  == filter_blank_values(long, <<"Last_Name", "First_Name">>)
    IN SelectSeq(named, LAMBDA r :
          StrUpper(r.Last_Name) # <<"N", "A", "N">>
             /\ StrUpper(r.First_Name) # <<"N", "A", "N">>)

(* one row per (Person ID, Entered Care), the earliest exit first; the    *)
(* sort is on the string Person ID + '_' + Entered Care, which orders     *)
(* identifiers of equal length as numbers                                  *)
KeyConcat(r) == <<r.Person_ID, r.Entered_Care, NullsLast(r.Exited_Care)>>

DedupEpisodes(df) ==
    LET sorted == SortValues(df, [i \in 1..Len(df) |-> KeyConcat(df[i])])
        keep == {i \in 1..Len(sorted) : \A j \in 1..(i - 1) :
                    <<sorted[j].Person_ID, sorted[j].Entered_Care>>
                       # <<sorted[i].Person_ID, sorted[i].Entered_Care>>}
        kth(k) == CHOOSE i \in keep : Cardinality({j \in keep : j < i}) = k - 1
    IN [k \in 1..Cardinality(keep) |-> sorted[kth(k)]]

NameOrEmpty(v) == IF v = NullName THEN << >> ELSE v

process_names(df) ==
    LET named == filter_blank_values(df, <<"Last_Name", "First_Name">>)
        ascii == [i \in 1..Len(named) |->
                    [named[i] EXCEPT
                        !.First_Name = Unidecode(@),
                        !.Middle_Name = IF @ = NullName THEN @ ELSE Unidecode(@),
                        !.Last_Name = Unidecode(@)]]
        dedup == DedupEpisodes(ascii)
        upper == [i \in 1..Len(dedup) |->
                    [dedup[i] EXCEPT
                        !.Person_ID = StrOfInt(@),
                        !.Last_Name = StrUpper(NameOrEmpty(@)),
                        !.Middle_Name = StrUpper(NameOrEmpty(@)),
                        !.First_Name = StrUpper(NameOrEmpty(@))]]
    IN DropDuplicates(process_double_first_names(process_double_barrel_last_names(upper)))

(* df['Gender'].map({'Male': 'M', 'Female': 'F'}).fillna('U') *)
SexOf(gender) ==
    CASE gender = "Male"   -> <<"M">>
      [] gender = "Female" -> <<"F">>
      [] OTHER             -> <<"U">>

NameWidth == 30

Truncate(s, n) == SubSeq(s, 1, IF Len(s) < n THEN Len(s) ELSE n)

create_final_dataset(df) ==
    LET named == filter_blank_values(df, <<"Last_Name", "First_Name">>)
        full  == [i \in 1..Len(named) |->
                    named[i] @@ [Name |-> named[i].Last_Name \o <<",">>
                                             \o named[i].First_Name]]
        ok    == SelectSeq(full, LAMBDA r : r.Name # <<",">> /\ Strip(r.Name) # << >>)
        final == [i \in 1..Len(ok) |->
                    [Person_ID |-> ok[i].Person_ID,
                     Name |-> Truncate(ok[i].Name, NameWidth),
                     Date_of_Birth |-> ok[i].Date_of_Birth,
                     Sex |-> SexOf(ok[i].Gender),
                     Last_Name |-> ok[i].Last_Name,
                     First_Name |-> ok[i].First_Name,
                     Middle_Name |-> ok[i].Middle_Name,
                     Entered_Care |-> ok[i].Entered_Care,
                     Exited_Care |-> ok[i].Exited_Care]]
    IN DropDuplicates(SelectSeq(final, LAMBDA r : Strip(r.Name) # << >>))

(* str.ljust(n) *)
LJust(s, n) == s \o [i \in 1..(IF Len(s) < n THEN n - Len(s) ELSE 0) |-> " "]

TwoDigits(n) == <<Digits[(n \div 10) + 1], Digits[(n % 10) + 1]>>

(* strftime('%Y-%m-%d') of a Timestamp (years 1677 to 2262) *)
Strftime(d) ==
    StrOfInt(YearOf(d)) \o <<"-">> \o TwoDigits(MonthOf(d)) \o <<"-">>
       \o TwoDigits(DayOf(d))

FormatName_NoSlice(name) == LJust(Strip(name), NameWidth)

FormatName(name) == LJust(Truncate(Strip(name), NameWidth), NameWidth)

write_fixed_width_file(df) ==
    LET dps_df == DropDuplicates([i \in 1..Len(df) |->
                     [Name |-> df[i].Name, Date_of_Birth |-> df[i].Date_of_Birth,
                      Sex |-> df[i].Sex]])
        valid  == SelectSeq(dps_df, LAMBDA r :
                     /\ r.Name # NullName /\ ~IsNull(r.Date_of_Birth)
                     /\ r.Sex # NullName
                     /\ Len(Strip(r.Name)) > 0 /\ Len(Strip(r.Sex)) > 0)
    IN [i \in 1..Len(valid) |->
          FormatName(valid[i].Name) \o Strftime(valid[i].Date_of_Birth)
             \o Truncate(Strip(valid[i].Sex), 1)]

(***************************************************************************)
(* Bounded inputs: the tables a run starts from (after                     *)
(* load_and_prepare_data), drawn from small sets of field values.          *)
(***************************************************************************)
MaxStatusEvents == 2
MaxWindowEvents == 1
MaxTieEvents == 2
MaxJoinEvents == 2
MaxJoinPersons == 2
MaxNormEvents == 1
MaxNormPersons == 1
MaxRoster == 1

SeqsUpTo(S, n) == UNION {[1..k -> S] : k \in 0..n}

AB == <<"A", "B">>
A_B == <<"A", " ", "B">>
CD == <<"C", "D">>
ab == <<"a", "b">>
Sp_AB == <<" ", "A", "B">>
AB_Sp == <<"A", "B", " ">>
ZZ == <<"Z", "Z">>

Dob == MkDate(2010, 5, 1)
FYStart == 20240901
FYEnd == 20250831
Q2Start == 20241201
Q2End == 20250228

(* the reporting windows: fiscal year 2025 and its second quarter, and a *)
(* run date that gives each                                               *)
Windows == {<<FYStart, FYEnd>>, <<Q2Start, Q2End>>}
WindowRunDates == {MkDate(2025, 9, 25), MkDate(2025, 4, 15)}

Event(n, dob, lc, loc, clr, sts) ==
    [CPS_NAME |-> n, CPS_DOB |-> dob, LAST_CONT |-> lc, LOCATE_DT |-> loc,
     CLR_CAN_DT |-> clr, STS |-> sts]

Person(n, dob, pid, ent, ext) ==
    [Name |-> n, Date_of_Birth |-> dob, Person_ID |-> pid,
     Entered_Care |-> ent, Exited_Care |-> ext]

OpenEpisodeAB == Person(AB, Dob, 1, 20240601, NaT)
ClosedEpisodeAB == Person(AB, Dob, 1, 20230101, 20231231)
OpenEpisodeCD == Person(CD, Dob, 2, 20240601, NaT)

Statuses == {"LOC", "ACTV", "CLRD", "CANC", "", "UNK"}

(* status priority and recency: several statuses and contact dates *)
StatusEvents ==
    {Event(n, Dob, lc, NaT, NaT, sts) :
        n \in {AB, CD}, lc \in {20250110, 20250320}, sts \in Statuses}

(* the reporting window: contact, locate and clearance dates around it *)
WindowEvents ==
    {Event(AB, Dob, lc, loc, clr, "ACTV") :
        lc \in {NaT, 20240815, 20240901, 20250110, 20250831, 20250905},
        loc \in {NaT, 20240820, 20240910},
        clr \in {NaT, 20240825, 20240915}}

WindowPersons ==
    {<<OpenEpisodeAB>>, <<ClosedEpisodeAB>>, <<ClosedEpisodeAB, OpenEpisodeAB>>}

(* rows tied on status within one (Person_ID, LAST_CONT) group *)
TieEvents ==
    {Event(AB, Dob, 20250110, loc, clr, sts) :
        loc \in {NaT, 20250112, 20250115},
        clr \in {NaT, 20250113, 20250120},
        sts \in {"LOC", "CLRD"}}

(* the join: matching, fan-out and unmatched events *)
JoinEvents ==
    {Event(n, Dob, 20250110, NaT, NaT, "ACTV") : n \in {AB, A_B, ZZ}}
       \cup {Event(AB, NaT, 20250110, NaT, NaT, "ACTV")}

JoinPersons ==
    {Person(AB, dob, pid, 20240601, NaT) : dob \in {Dob, NaT}, pid \in {1, 2}}
       \cup {Person(NullName, dob, 1, 20240601, NaT) : dob \in {Dob, NaT}}

(* the age predicate: every birth date of a leap and a non-leap year *)
BirthYears == {2004, 2007}
BirthDates ==
    {MkDate(y, m, d) : y \in BirthYears, m \in 1..12, d \in 1..31}
ValidBirthDates ==
    {b \in BirthDates : DayOf(b) <= DaysInMonth(YearOf(b), MonthOf(b))} \cup {NaT}

AgeEvents ==
    {Event(AB, dob, lc, NaT, NaT, "ACTV") :
        dob \in ValidBirthDates, lc \in {NaT, 20200101, 20220301, 20250110}}

InitStatus ==
    /\ dps_data \in SeqsUpTo(StatusEvents, MaxStatusEvents)
    /\ cps_data = <<OpenEpisodeAB, OpenEpisodeCD>>
    /\ \E w \in Windows : start_date = w[1] /\ end_date = w[2]

InitWindow ==
    /\ dps_data \in SeqsUpTo(WindowEvents, MaxWindowEvents)
    /\ cps_data \in WindowPersons
    /\ \E w \in Windows : start_date = w[1] /\ end_date = w[2]

InitTie ==
    /\ dps_data \in SeqsUpTo(TieEvents, MaxTieEvents)
    /\ cps_data = <<OpenEpisodeAB>>
    /\ start_date = FYStart /\ end_date = FYEnd

InitJoin ==
    /\ dps_data \in SeqsUpTo(JoinEvents, MaxJoinEvents)
    /\ cps_data \in SeqsUpTo(JoinPersons, MaxJoinPersons)
    /\ start_date = FYStart /\ end_date = FYEnd

(* the join key: names differing in case and in spaces on either side; *)
(* the event names pass through the strip of load_and_prepare_data     *)
NormEvents ==
    {Event(n, Dob, 20250110, NaT, NaT, "ACTV") : n \in {AB, A_B, ab, Sp_AB}}

NormPersons ==
    {Person(n, Dob, 1, 20240601, NaT) : n \in {AB, A_B, ab, AB_Sp}}

InitNorm ==
    /\ \E raw \in SeqsUpTo(NormEvents, MaxNormEvents) : dps_data = LoadDps(raw)
    /\ cps_data \in SeqsUpTo(NormPersons, MaxNormPersons)
    /\ start_date = FYStart /\ end_date = FYEnd

(* the report builder: a roster, the person/county table and the county *)
(* lookup next to a few sets of events                                   *)
RosterEntry(cid, rec, ls) ==
    [CHILD_PID |-> cid, DT_RECOVERED |-> rec, LEGAL_STATUS |-> ls]

ToadRow(id, code, county, name) ==
    [ID_SA_PERSON |-> id, CD_LEGAL_CNTY |-> code, DECODE |-> county,
     NM_PERSON_NAME |-> name]

Lookup(county, region) == [Legal_County |-> county, Legal_Region |-> region]

RosterIds == {NumId(1), NumId(2), StrId(<<"1">>), StrId(<<" ", "1">>)}

RosterEntries ==
    {RosterEntry(id, rec, ls) :
        id \in RosterIds, rec \in {NaT, 20250201},
        ls \in {"TMC", "PMC/Rts Term (Father)", "JMC", NoneStr}}

ToadTravis == ToadRow(NumId(1), "227", "Travis", AB)
ToadHarris == ToadRow(NumId(1), "101", "Harris", AB)
ToadLoving == ToadRow(NumId(1), "151", "Loving", AB)

ToadTables == {<< >>, <<ToadTravis>>, <<ToadLoving>>, <<ToadTravis, ToadHarris>>}

CountyLookup == <<Lookup("Travis", "7"), Lookup("Harris", "6")>>

ReportEvent(n, sts) == Event(n, Dob, 20250110, NaT, NaT, sts)

ReportEventTables ==
    {<<ReportEvent(AB, "ACTV")>>, <<ReportEvent(AB, "LOC")>>,
     <<ReportEvent(AB, "ACTV"), ReportEvent(CD, "ACTV")>>,
     <<ReportEvent(AB, "CLRD"), ReportEvent(CD, "ACTV")>>,
     <<ReportEvent(AB, "ACTV"), ReportEvent(ZZ, "ACTV")>>}

InitReport ==
    /\ dps_data \in ReportEventTables
    /\ cps_data = <<OpenEpisodeAB, OpenEpisodeCD>>
    /\ start_date = FYStart /\ end_date = FYEnd
    /\ sa_98 \in SeqsUpTo(RosterEntries, MaxRoster)
    /\ toad_data \in ToadTables
    /\ cnty_lookup = CountyLookup

(* the database tables of the runs that vary the events *)
FixedDb ==
    /\ sa_98 = <<RosterEntry(NumId(1), NaT, "TMC")>>
    /\ toad_data = <<ToadTravis>>
    /\ cnty_lookup = CountyLookup

InitAge ==
    /\ dps_data \in {<<e>> : e \in AgeEvents}
    /\ cps_data = <<Person(AB, dps_data[1].CPS_DOB, 1, 20200101, NaT)>>
    /\ start_date = FYStart /\ end_date = FYEnd

Init ==
    /\ pc = "loaded"
    /\ \/ /\ InitStatus \/ InitWindow \/ InitTie \/ InitJoin \/ InitAge \/ InitNorm
          /\ FixedDb
       \/ InitReport
    /\ cps_pid = << >>
    /\ dps_joined = << >>
    /\ dps_total = << >>
    /\ total_events = << >>
    /\ not_in_impact = << >>
    /\ not_in_dps = << >>
    /\ run_date \in {d \in WindowRunDates :
          LET p == get_query_period(d)
          IN FilterWindow(p.fiscal_year, p.quarter) = <<start_date, end_date>>}
    /\ fiscal_year = get_query_period(run_date).fiscal_year
    /\ quarter = get_query_period(run_date).quarter
    /\ query_period = get_query_period(run_date).query_period
    /\ fy_start_dt = get_fiscal_year_dates(fiscal_year)[1]
    /\ fy_end_dt = get_fiscal_year_dates(fiscal_year)[2]
    /\ log = PeriodLog(fiscal_year, quarter, start_date, end_date)
    /\ filtered_data = << >> /\ processed_data = << >>
    /\ final_data = << >> /\ txt_file = << >>
    /\ NotRunning

(***************************************************************************)
(* The steps of main(), in program order.                                  *)
(***************************************************************************)
TransformData ==
    /\ pc = "loaded"
    /\ dps_data' = TransformDps(dps_data)
    /\ cps_data' = TransformCps(cps_data)
    /\ pc' = "transformed"
    /\ log' = Append(log, LogRecord("info", "After filtering",
                                    <<Len(dps_data'), Len(cps_data')>>, << >>))
    /\ UNCHANGED <<run, cps_pid, start_date, end_date, dps_joined, dps_total, total_events,
                   db, reports, period, send>>

PrepareCps ==
    /\ pc = "transformed"
    /\ cps_pid' = PrepareCpsForJoin(cps_data)
    /\ pc' = "prepared"
    /\ UNCHANGED <<run, dps_data, cps_data, start_date, end_date, dps_joined, dps_total,
                   total_events, log,
                   db, reports, period, send>>

Join ==
    /\ pc = "prepared"
    /\ dps_joined' = JoinDpsCps(dps_data, cps_pid)
    /\ pc' = "joined"
    /\ log' = LET unmatched == SelectSeq(dps_joined', LAMBDA r : r.Person_ID = NaN)
              IN IF Len(unmatched) > 0
                 THEN Append(log, LogRecord("warning", "DPS records did not match",
                                            <<Len(unmatched)>>, << >>))
                 ELSE log
    /\ UNCHANGED <<run, dps_data, cps_data, cps_pid, start_date, end_date, dps_total,
                   total_events,
                   db, reports, period, send>>

Filter ==
    /\ pc = "joined"
    /\ dps_joined' = FilterValidCases(dps_joined)
    /\ pc' = "filtered"
    /\ log' = Append(log, LogRecord("info", "After age filter",
                                    <<Len(dps_joined')>>, << >>))
    /\ UNCHANGED <<run, dps_data, cps_data, cps_pid, start_date, end_date, dps_total,
                   total_events,
                   db, reports, period, send>>

Resolve ==
    /\ pc = "filtered"
    /\ dps_total' = HandleStatusAndDeduplicate(dps_joined, start_date, end_date)
    /\ pc' = "resolved"
    /\ log' = Append(log, LogRecord("info", "Final DPS total",
                                    <<Len(dps_total')>>, << >>))
    /\ UNCHANGED <<run, dps_data, cps_data, cps_pid, start_date, end_date, dps_joined,
                   total_events,
                   db, reports, period, send>>

GenerateOutputFiles ==
    /\ pc = "resolved"
    /\ total_events' = dps_total
    /\ not_in_impact' = NotInImpact(dps_total, sa_98, toad_data, cnty_lookup,
                                    PidIsFloat(dps_data, cps_pid))
    /\ not_in_dps' = NotInDps(dps_total, sa_98)
    /\ log' = log \o << LogRecord("info", "Writing total runaway events", << >>, << >>),
                        LogRecord("info", "Writing not_in_IMPACT", << >>, << >>),
                        LogRecord("info", "Writing not_in_DPS", << >>, << >>) >>
    /\ pc' = "reported"
    /\ UNCHANGED <<run, dps_data, cps_data, cps_pid, start_date, end_date, dps_joined,
                   dps_total, db, period, send>>

Next ==
    \/ TransformData
    \/ PrepareCps
    \/ Join
    \/ Filter
    \/ Resolve
    \/ GenerateOutputFiles

Spec == Init /\ [][Next]_vars

(***************************************************************************)
(* The reporting period: main() from the run date to the filtering window, *)
(* and get_quarter_dates called with any quarter value.                    *)
(***************************************************************************)
RunYears == {2024, 2025}

RunDates ==
    {d \in {MkDate(y, m, dd) : y \in RunYears, m \in 1..12, dd \in 1..31} :
        DayOf(d) <= DaysInMonth(YearOf(d), MonthOf(d))}

CallFiscalYears == 2023..2028
CallQuarters == (-1)..6

NothingLoaded ==
    /\ dps_data = << >> /\ cps_data = << >> /\ cps_pid = << >>
    /\ dps_joined = << >> /\ dps_total = << >> /\ total_events = << >>
    /\ sa_98 = << >> /\ toad_data = << >> /\ cnty_lookup = << >>
    /\ not_in_impact = << >> /\ not_in_dps = << >>
    /\ log = << >>

NothingSent ==
    /\ filtered_data = << >> /\ processed_data = << >>
    /\ final_data = << >> /\ txt_file = << >>

InitMain ==
    /\ pc = "main"
    /\ run_date \in RunDates
    /\ fiscal_year = 0 /\ quarter = NoQuarter /\ query_period = << >>
    /\ fy_start_dt = NaT /\ fy_end_dt = NaT
    /\ start_date = NaT /\ end_date = NaT
    /\ NothingLoaded /\ NothingSent /\ NotRunning

InitQuarterCall ==
    /\ pc = "quarter_call"
    /\ run_date = NaT
    /\ fiscal_year \in CallFiscalYears /\ quarter \in CallQuarters
    /\ query_period = << >>
    /\ fy_start_dt = NaT /\ fy_end_dt = NaT
    /\ start_date = NaT /\ end_date = NaT
    /\ NothingLoaded /\ NothingSent /\ NotRunning

InitPeriod == InitMain \/ InitQuarterCall

GetQueryPeriod ==
    /\ pc = "main"
    /\ fiscal_year' = get_query_period(run_date).fiscal_year
    /\ quarter' = get_query_period(run_date).quarter
    /\ query_period' = get_query_period(run_date).query_period
    /\ log' = Append(log, LogRecord("info", "Query period",
                                    <<fiscal_year', quarter'>>, << >>))
    /\ pc' = "period"
    /\ UNCHANGED <<run, run_date, fy_start_dt, fy_end_dt, start_date, end_date,
                   dps_data, cps_data, cps_pid, dps_joined, dps_total,
                   total_events, db, reports, send>>

GetFiscalYearDates ==
    /\ pc = "period"
    /\ fy_start_dt' = get_fiscal_year_dates(fiscal_year)[1]
    /\ fy_end_dt' = get_fiscal_year_dates(fiscal_year)[2]
    /\ log' = Append(log, LogRecord("info", "Fiscal year dates",
                                    <<fy_start_dt', fy_end_dt'>>, << >>))
    /\ pc' = "fy_dates"
    /\ UNCHANGED <<run, run_date, fiscal_year, quarter, query_period, start_date,
                   end_date, dps_data, cps_data, cps_pid, dps_joined, dps_total,
                   total_events, db, reports, send>>

(* `if quarter:` get_quarter_dates, else the fiscal year dates *)
SetFilterWindow ==
    /\ pc = "fy_dates"
    /\ start_date' = (IF quarter # NoQuarter
                      THEN get_quarter_dates(fiscal_year, quarter).dates[1]
                      ELSE fy_start_dt)
    /\ end_date' = (IF quarter # NoQuarter
                    THEN get_quarter_dates(fiscal_year, quarter).dates[2]
                    ELSE fy_end_dt)
    /\ log' = Append(log, LogRecord("info", "Date range for filtering",
                                    <<start_date', end_date'>>, << >>))
    /\ pc' = "dates"
    /\ UNCHANGED <<run, period, dps_data, cps_data, cps_pid, dps_joined, dps_total,
                   total_events, db, reports, send>>

(* get_quarter_dates(fiscal_year, quarter) on its own *)
CallGetQuarterDates ==
    /\ pc = "quarter_call"
    /\ LET res == get_quarter_dates(fiscal_year, quarter)
       IN IF res.raised
          THEN pc' = "quarter_raised" /\ UNCHANGED <<start_date, end_date>>
          ELSE /\ pc' = "quarter_returned"
               /\ start_date' = res.dates[1]
               /\ end_date' = res.dates[2]
    /\ UNCHANGED <<run, period, tables, db, reports, send>>

NextPeriod ==
    \/ GetQueryPeriod
    \/ GetFiscalYearDates
    \/ SetFilterWindow
    \/ CallGetQuarterDates

SpecPeriod == InitPeriod /\ [][NextPeriod]_vars

(***************************************************************************)
(* The outbound run: main() of send2dps.py from the rows of the period to  *)
(* the fixed-width file, and write_fixed_width_file called on any table.   *)
(***************************************************************************)
MaxSendRows == 1
MaxWriteRows == 1

Rep(c, n) == [i \in 1..n |-> c]

SendRow(pid, first, middle, last, dob, ent, ext, gender) ==
    [Person_ID |-> pid, First_Name |-> first, Middle_Name |-> middle,
     Last_Name |-> last, Date_of_Birth |-> dob, Entered_Care |-> ent,
     Exited_Care |-> ext, Gender |-> gender]

ABC == <<"A", "B", "C">>

SendLastNames ==
    {AB,
     <<"A", "B", "-", "C", "D">>,
     <<"A", "B", "-", "C", "D", "-", "E", "F">>,
     <<"D", "E", " ", "L", "A", " ", "C", "D">>,
     <<"A", "B", " ", "C", "D">>,
     <<"-">>,
     <<"a", "b", "e_acute">>,
     Rep("X", 28)}

SendFirstNames ==
    {ABC, AB, <<"A", "B", "-", "C", "D", "E">>,
     <<"A", "B", "C", " ", "D", "E", "F">>}

SendRows ==
    {SendRow(1, f, << >>, l, Dob, 20240601, NaT, g) :
        f \in SendFirstNames, l \in SendLastNames, g \in {"Male", "Unknown"}}

(* two episodes, a missing birth date, a missing entry date, blank names *)
SendTables ==
    {<<SendRow(1, ABC, NullName, AB, Dob, 20240601, NaT, "Female"),
       SendRow(1, ABC, NullName, AB, Dob, 20240601, 20241231, "Female"),
       SendRow(1, ABC, NullName, AB, Dob, 20230101, 20231231, "Female")>>,
     <<SendRow(1, ABC, << >>, AB, NaT, 20240601, NaT, "Male")>>,
     <<SendRow(1, ABC, << >>, AB, Dob, NaT, NaT, "Male")>>,
     <<SendRow(1, <<" ">>, << >>, AB, Dob, 20240601, NaT, "Male")>>,
     <<SendRow(1, ABC, << >>, NullName, Dob, 20240601, NaT, "Male")>>}

WriteNames ==
    {NullName, << >>, <<" ", " ">>, <<"A", "B", ",", "C", "D">>,
     <<" ", "A", "B", ",", "C", "D", " ">>, Rep("X", 30), Rep("X", 29) \o <<",", "A", "B">>}

WriteSexes ==
    {NullName, << >>, <<" ">>, <<"M">>, <<" ", "F">>, <<"M", "a", "l", "e">>}

WriteRows ==
    {[Name |-> n, Date_of_Birth |-> d, Sex |-> s] :
        n \in WriteNames, d \in {Dob, NaT}, s \in WriteSexes}

NotReceiving ==
    /\ run_date = NaT /\ fiscal_year = 0 /\ quarter = NoQuarter
    /\ query_period = << >>
    /\ fy_start_dt = NaT /\ fy_end_dt = NaT
    /\ start_date = NaT /\ end_date = NaT
    /\ NothingLoaded

InitSendMain ==
    /\ pc = "send_main"
    /\ filtered_data \in SeqsUpTo(SendRows, MaxSendRows) \cup SendTables
    /\ processed_data = << >> /\ final_data = << >> /\ txt_file = << >>
    /\ NotReceiving /\ NotRunning

InitWriteCall ==
    /\ pc = "write_call"
    /\ final_data \in SeqsUpTo(WriteRows, MaxWriteRows)
    /\ filtered_data = << >> /\ processed_data = << >> /\ txt_file = << >>
    /\ NotReceiving /\ NotRunning

InitSend == InitSendMain \/ InitWriteCall

(* the rows without entry date or birth date are left out *)
FilterNulls ==
    /\ pc = "send_main"
    /\ filtered_data' = SelectSeq(filtered_data, LAMBDA r :
                            ~IsNull(r.Entered_Care) /\ ~IsNull(r.Date_of_Birth))
    /\ log' = log \o << LogRecord("info", "Rows after filtering null enter care dates",
                           <<Len(SelectSeq(filtered_data,
                                           LAMBDA r : ~IsNull(r.Entered_Care)))>>, << >>),
                        LogRecord("info", "Rows after filtering null date of birth",
                           <<Len(filtered_data')>>, << >>) >>
    /\ pc' = "send_filtered"
    /\ UNCHANGED <<run, processed_data, final_data, txt_file, period, start_date,
                   end_date, dps_data, cps_data, cps_pid, dps_joined, dps_total,
                   total_events, db, reports>>

ProcessNames ==
    /\ pc = "send_filtered"
    /\ processed_data' = process_names(filtered_data)
    /\ log' = Append(log, LogRecord("info", "Rows after name processing",
                                    <<Len(processed_data')>>, << >>))
    /\ pc' = "send_processed"
    /\ UNCHANGED <<run, filtered_data, final_data, txt_file, period, start_date,
                   end_date, dps_data, cps_data, cps_pid, dps_joined, dps_total,
                   total_events, db, reports>>

CreateFinalDataset ==
    /\ pc = "send_processed"
    /\ final_data' = create_final_dataset(processed_data)
    /\ log' = Append(log, LogRecord("info", "Final dataset rows",
                                    <<Len(final_data')>>, << >>))
    /\ pc' = "send_final"
    /\ UNCHANGED <<run, filtered_data, processed_data, txt_file, period, start_date,
                   end_date, dps_data, cps_data, cps_pid, dps_joined, dps_total,
                   total_events, db, reports>>

WriteFixedWidthFile ==
    /\ pc \in {"send_final", "write_call"}
    /\ txt_file' = write_fixed_width_file(final_data)
    /\ log' = Append(log, LogRecord("info", "Fixed-width file written",
                                    <<Len(txt_file')>>, << >>))
    /\ pc' = "written"
    /\ UNCHANGED <<run, filtered_data, processed_data, final_data, period, start_date,
                   end_date, dps_data, cps_data, cps_pid, dps_joined, dps_total,
                   total_events, db, reports>>

NextSend ==
    \/ FilterNulls
    \/ ProcessNames
    \/ CreateFinalDataset
    \/ WriteFixedWidthFile

SpecSend == InitSend /\ [][NextSend]_vars

(***************************************************************************)
(* The two programs as runs against their collaborators: configuration,    *)
(* database, SFTP server, SharePoint, network drive, mail server and the   *)
(* local disk.  Every call that can raise has the two outcomes; the tables *)
(* are computed as in the specifications above and are left out here.      *)
(***************************************************************************)
(* get_file_paths: the three reports, in the order they are written *)
ReportFiles == <<"total_events", "not_in_impact", "not_in_dps">>

(* the files main() of receivedps.py archives, in order *)
ArchiveOrder == <<"dps_results", "cps_sent", "total_events", "not_in_impact", "not_in_dps">>

(* the files of send2dps.py: the reference workbook and the text file *)
SendFiles == <<"cps_sent", "txt">>

(* the files fetch_dps_files looks for, in order *)
FetchOrder == <<"dps_results", "dps_counts">>

IndexOf(seq, x) == CHOOSE i \in 1..Len(seq) : seq[i] = x

Mail(to, subject, detail, trace) ==
    [to |-> to, subject |-> subject, detail |-> detail, trace |-> trace]

(* a step of the try block raises: control goes to the except clause *)
Raised(step, handler) ==
    /\ exc' = step
    /\ faults' = faults \cup {step}
    /\ pc' = handler

InitReceiveRun ==
    /\ pc = "rcv_main"
    /\ script = "receivedps.py"
    /\ disk \in SUBSET {"dps_results", "cps_sent"}
    /\ remote \in SUBSET {"dps_results", "dps_counts"}
    /\ sharepoint_enabled \in BOOLEAN
    /\ archived = {} /\ shared = {} /\ mail = << >> /\ faults = {}
    /\ exc = NoException /\ fetched_files = {}
    /\ sharepoint_success = FALSE /\ sharepoint_error = NoError /\ uploaded_urls = {}
    /\ sftp_upload_success = FALSE /\ sftp_error = NoError
    /\ upload_success = FALSE /\ upload_error = NoError
    /\ NotReceiving /\ NothingSent

InitSendRun ==
    /\ pc = "snd_main"
    /\ script = "send2dps.py"
    /\ disk = {} /\ remote = {}
    /\ sharepoint_enabled = FALSE
    /\ archived = {} /\ shared = {} /\ mail = << >> /\ faults = {}
    /\ exc = NoException /\ fetched_files = {}
    /\ sharepoint_success = FALSE /\ sharepoint_error = NoError /\ uploaded_urls = {}
    /\ sftp_upload_success = FALSE /\ sftp_error = NoError
    /\ upload_success = FALSE /\ upload_error = NoError
    /\ NotReceiving /\ NothingSent

InitRun == InitReceiveRun \/ InitSendRun

(* read_config and get_logger, before the try block: an exception leaves   *)
(* main() at once                                                          *)
Setup ==
    /\ pc \in {"rcv_main", "snd_main"}
    /\ \E ok \in BOOLEAN :
          IF ok
          THEN /\ pc' = IF pc = "rcv_main" THEN "rcv_query" ELSE "snd_query"
               /\ log' = Append(log, LogRecord("info", "Starting", << >>, << >>))
               /\ UNCHANGED <<exc, faults>>
          ELSE /\ exc' = "read_config"
               /\ faults' = faults \cup {"read_config"}
               /\ pc' = "exited"
               /\ UNCHANGED log
    /\ UNCHANGED <<script, disk, archived, remote, shared, mail, fetched_files,
                   sharepoint_enabled, sharepoint_success, sharepoint_error,
                   uploaded_urls, sftp_upload_success, sftp_error, upload_success,
                   upload_error, pipeline>>

(* get_query_period .. query_database_data, connection.close() *)
RcvQuery ==
    /\ pc = "rcv_query"
    /\ \E ok \in BOOLEAN :
          IF ok
          THEN pc' = "rcv_connect" /\ UNCHANGED <<exc, faults>>
          ELSE Raised("database", "rcv_except")
    /\ UNCHANGED <<script, disk, archived, remote, shared, mail, fetched_files,
                   sharepoint_enabled, sharepoint_success, sharepoint_error,
                   uploaded_urls, sftp_upload_success, sftp_error, upload_success,
                   upload_error, log, pipeline>>

(* get_sftp_connection, then the test of the local results file *)
RcvConnect ==
    /\ pc = "rcv_connect"
    /\ \E ok \in BOOLEAN :
          IF ok
          THEN /\ pc' = IF "dps_results" \in disk THEN "rcv_load" ELSE "fetch_list"
               /\ log' = Append(log, LogRecord("info",
                            IF "dps_results" \in disk THEN "Using existing DPS file"
                            ELSE "Fetching files from DPS SFTP", << >>, << >>))
               /\ UNCHANGED <<exc, faults>>
          ELSE Raised("sftp_connect", "rcv_except") /\ UNCHANGED log
    /\ UNCHANGED <<script, disk, archived, remote, shared, mail, fetched_files,
                   sharepoint_enabled, sharepoint_success, sharepoint_error,
                   uploaded_urls, sftp_upload_success, sftp_error, upload_success,
                   upload_error, pipeline>>

(* where fetch_dps_files goes after the files before position k *)
FetchFrom(k) ==
    IF k <= Len(FetchOrder) /\ FetchOrder[k] \in remote THEN <<"fetch_get", FetchOrder[k]>>
    ELSE IF k + 1 <= Len(FetchOrder) /\ FetchOrder[k + 1] \in remote
         THEN <<"fetch_get", FetchOrder[k + 1]>>
    ELSE <<"rcv_load", "">>

FetchPc(target) ==
    IF target[1] = "rcv_load" THEN "rcv_load"
    ELSE IF target[2] = "dps_results" THEN "fetch_get_results" ELSE "fetch_get_counts"

(* sftp.listdir and the search of the two file names *)
FetchList ==
    /\ pc = "fetch_list"
    /\ \E ok \in BOOLEAN :
          IF ok
          THEN pc' = FetchPc(FetchFrom(1)) /\ UNCHANGED <<exc, faults>>
          ELSE Raised("sftp_listdir", "rcv_except")
    /\ UNCHANGED <<script, disk, archived, remote, shared, mail, fetched_files,
                   sharepoint_enabled, sharepoint_success, sharepoint_error,
                   uploaded_urls, sftp_upload_success, sftp_error, upload_success,
                   upload_error, log, pipeline>>

FetchFile == IF pc \in {"fetch_get_results", "fetch_remove_results"}
             THEN "dps_results" ELSE "dps_counts"

AfterFetch(f) == FetchPc(FetchFrom(IndexOf(FetchOrder, f) + 1))

FetchGet_RemoveAnyway ==
    /\ pc \in {"fetch_get_results", "fetch_get_counts"}
    /\ \E ok \in BOOLEAN :
          IF ok
          THEN /\ disk' = disk \cup {FetchFile}
               /\ fetched_files' = fetched_files \cup {FetchFile}
               /\ UNCHANGED faults
          ELSE /\ faults' = faults \cup {"get_" \o FetchFile}
               /\ UNCHANGED <<disk, fetched_files>>
    /\ pc' = IF FetchFile = "dps_results" THEN "fetch_remove_results"
             ELSE "fetch_remove_counts"
    /\ log' = log
    /\ UNCHANGED <<script, archived, remote, shared, mail, exc,
                   sharepoint_enabled, sharepoint_success, sharepoint_error,
                   uploaded_urls, sftp_upload_success, sftp_error, upload_success,
                   upload_error, pipeline>>

(* sftp.get of one file inside its try: a failure is logged and the file   *)
(* is skipped                                                              *)
FetchGet ==
    /\ pc \in {"fetch_get_results", "fetch_get_counts"}
    /\ \E ok \in BOOLEAN :
          IF ok
          THEN /\ disk' = disk \cup {FetchFile}
               /\ fetched_files' = fetched_files \cup {FetchFile}
               /\ pc' = IF FetchFile = "dps_results" THEN "fetch_remove_results"
                        ELSE "fetch_remove_counts"
               /\ log' = Append(log, LogRecord("info", "Downloaded", << >>, << >>))
               /\ UNCHANGED faults
          ELSE /\ faults' = faults \cup {"get_" \o FetchFile}
               /\ pc' = AfterFetch(FetchFile)
               /\ log' = Append(log, LogRecord("error", "Failed to download", << >>, << >>))
               /\ UNCHANGED <<disk, fetched_files>>
    /\ UNCHANGED <<script, archived, remote, shared, mail, exc,
                   sharepoint_enabled, sharepoint_success, sharepoint_error,
                   uploaded_urls, sftp_upload_success, sftp_error, upload_success,
                   upload_error, pipeline>>

(* sftp.remove of a downloaded file inside its own try *)
FetchRemove ==
    /\ pc \in {"fetch_remove_results", "fetch_remove_counts"}
    /\ \E ok \in BOOLEAN :
          IF ok
          THEN /\ remote' = remote \ {FetchFile}
               /\ log' = Append(log, LogRecord("info", "Removed from server", << >>, << >>))
               /\ UNCHANGED faults
          ELSE /\ faults' = faults \cup {"remove_" \o FetchFile}
               /\ log' = Append(log, LogRecord("warning", "Failed to remove", << >>, << >>))
               /\ UNCHANGED remote
    /\ pc' = AfterFetch(FetchFile)
    /\ UNCHANGED <<script, disk, archived, shared, mail, exc, fetched_files,
                   sharepoint_enabled, sharepoint_success, sharepoint_error,
                   uploaded_urls, sftp_upload_success, sftp_error, upload_success,
                   upload_error, pipeline>>

(* load_and_prepare_data .. handle_status_and_deduplicate: the two input   *)
(* files must be there, and any step may raise                             *)
RcvLoad ==
    /\ pc = "rcv_load"
    /\ \E ok \in BOOLEAN :
          IF ok /\ {"dps_results", "cps_sent"} \subseteq disk
          THEN pc' = "rcv_write_total_events" /\ UNCHANGED <<exc, faults>>
          ELSE Raised("load", "rcv_except")
    /\ UNCHANGED <<script, disk, archived, remote, shared, mail, fetched_files,
                   sharepoint_enabled, sharepoint_success, sharepoint_error,
                   uploaded_urls, sftp_upload_success, sftp_error, upload_success,
                   upload_error, log, pipeline>>

WritePc(k) ==
    IF k > Len(ReportFiles) THEN "rcv_upload"
    ELSE IF k = 1 THEN "rcv_write_total_events"
    ELSE IF k = 2 THEN "rcv_write_not_in_impact"
    ELSE "rcv_write_not_in_dps"

WriteFile ==
    IF pc = "rcv_write_total_events" THEN "total_events"
    ELSE IF pc = "rcv_write_not_in_impact" THEN "not_in_impact"
    ELSE "not_in_dps"

(* generate_output_files: each report is computed and written by its own   *)
(* to_excel call, one after the other                                      *)
RcvWrite ==
    /\ pc \in {"rcv_write_total_events", "rcv_write_not_in_impact", "rcv_write_not_in_dps"}
    /\ \E ok \in BOOLEAN :
          IF ok
          THEN /\ disk' = disk \cup {WriteFile}
               /\ pc' = WritePc(IndexOf(ReportFiles, WriteFile) + 1)
               /\ log' = Append(log, LogRecord("info", "Writing", << >>, << >>))
               /\ UNCHANGED <<exc, faults>>
          ELSE /\ Raised("write_" \o WriteFile, "rcv_except")
               /\ UNCHANGED <<disk, log>>
    /\ UNCHANGED <<script, archived, remote, shared, mail, fetched_files,
                   sharepoint_enabled, sharepoint_success, sharepoint_error,
                   uploaded_urls, sftp_upload_success, sftp_error, upload_success,
                   upload_error, pipeline>>

RcvUpload_Uncaught ==
    /\ pc = "rcv_upload"
    /\ IF sharepoint_enabled
       THEN \E ok \in BOOLEAN :
              IF ok
              THEN /\ uploaded_urls' = {"not_in_impact", "not_in_dps"}
                   /\ shared' = shared \cup {"not_in_impact", "not_in_dps"}
                   /\ sharepoint_success' = TRUE
                   /\ pc' = "rcv_notify"
                   /\ UNCHANGED <<sharepoint_error, faults, exc>>
              ELSE /\ Raised("sharepoint", "rcv_except")
                   /\ UNCHANGED <<uploaded_urls, shared, sharepoint_success, sharepoint_error>>
       ELSE /\ pc' = "rcv_notify"
            /\ UNCHANGED <<uploaded_urls, shared, sharepoint_success,
                           sharepoint_error, faults, exc>>
    /\ UNCHANGED <<script, disk, archived, remote, mail, fetched_files,
                   sharepoint_enabled, sftp_upload_success, sftp_error,
                   upload_success, upload_error, log, pipeline>>

(* upload_files_to_sharepoint inside its try, when SharePoint is enabled *)
RcvUpload ==
    /\ pc = "rcv_upload"
    /\ IF sharepoint_enabled
       THEN \E ok \in BOOLEAN :
              IF ok
              THEN /\ uploaded_urls' = {"not_in_impact", "not_in_dps"}
                   /\ shared' = shared \cup {"not_in_impact", "not_in_dps"}
                   /\ sharepoint_success' = TRUE
                   /\ log' = Append(log, LogRecord("info", "Successfully uploaded files to SharePoint", << >>, << >>))
                   /\ UNCHANGED <<sharepoint_error, faults>>
              ELSE /\ sharepoint_error' = "upload failed"
                   /\ sharepoint_success' = FALSE
                   /\ faults' = faults \cup {"sharepoint"}
                   /\ log' = Append(log, LogRecord("error", "Failed to upload to SharePoint", << >>, << >>))
                   /\ UNCHANGED <<uploaded_urls, shared>>
       ELSE UNCHANGED <<uploaded_urls, shared, sharepoint_success,
                        sharepoint_error, faults, log>>
    /\ pc' = "rcv_notify"
    /\ UNCHANGED <<script, disk, archived, remote, mail, exc, fetched_files,
                   sharepoint_enabled, sftp_upload_success, sftp_error,
                   upload_success, upload_error, pipeline>>

(* the subject send_notification_email of receivedps.py chooses *)
RcvSubject ==
    IF sharepoint_success /\ uploaded_urls # {} THEN "Uploaded to SharePoint"
    ELSE IF sharepoint_enabled THEN "SharePoint Upload Failed"
    ELSE "DPS Comparison Reports"

(* send_notification_email of receivedps.py: a failure is raised again *)
RcvNotify ==
    /\ pc = "rcv_notify"
    /\ \E ok \in BOOLEAN :
          IF ok
          THEN /\ mail' = Append(mail, Mail("output_email", RcvSubject,
                                            sharepoint_error, FALSE))
               /\ pc' = "rcv_archive_dps_results"
               /\ UNCHANGED <<exc, faults>>
          ELSE /\ Raised("notify", "rcv_except")
               /\ UNCHANGED mail
    /\ UNCHANGED <<script, disk, archived, remote, shared, fetched_files,
                   sharepoint_enabled, sharepoint_success, sharepoint_error,
                   uploaded_urls, sftp_upload_success, sftp_error, upload_success,
                   upload_error, log, pipeline>>

ArchivePc(k) ==
    IF k > Len(ArchiveOrder) THEN "completed"
    ELSE "rcv_archive_" \o ArchiveOrder[k]

ArchiveFile == CHOOSE f \in Range(ArchiveOrder) : pc = "rcv_archive_" \o f

(* archive_file: moves one file to the archive directory *)
RcvArchive ==
    /\ pc \in {"rcv_archive_" \o f : f \in Range(ArchiveOrder)}
    /\ \E ok \in BOOLEAN :
          IF ok /\ ArchiveFile \in disk
          THEN /\ disk' = disk \ {ArchiveFile}
               /\ archived' = archived \cup {ArchiveFile}
               /\ pc' = ArchivePc(IndexOf(ArchiveOrder, ArchiveFile) + 1)
               /\ log' = IF pc' = "completed"
                         THEN Append(log, LogRecord("info", "completed successfully", << >>, << >>))
                         ELSE log
               /\ UNCHANGED <<exc, faults>>
          ELSE /\ Raised("archive_" \o ArchiveFile, "rcv_except")
               /\ UNCHANGED <<disk, archived, log>>
    /\ UNCHANGED <<script, remote, shared, mail, fetched_files,
                   sharepoint_enabled, sharepoint_success, sharepoint_error,
                   uploaded_urls, sftp_upload_success, sftp_error, upload_success,
                   upload_error, pipeline>>

(* the except clause of both main(): email_error with the message and the  *)
(* stack trace (a failure of the mail server is only printed), then raise  *)
Except ==
    /\ pc \in {"rcv_except", "snd_except"}
    /\ \E ok \in BOOLEAN :
          IF ok
          THEN /\ mail' = Append(mail, Mail("error_email", "ERROR from " \o script,
                                            exc, TRUE))
               /\ UNCHANGED faults
          ELSE /\ faults' = faults \cup {"email_error"}
               /\ UNCHANGED mail
    /\ log' = Append(log, LogRecord("error", "Exception", << >>, << >>))
    /\ pc' = "exited"
    /\ UNCHANGED <<script, disk, archived, remote, shared, exc, fetched_files,
                   sharepoint_enabled, sharepoint_success, sharepoint_error,
                   uploaded_urls, sftp_upload_success, sftp_error, upload_success,
                   upload_error, pipeline>>

(* get_filtered_data_for_period .. create_final_dataset of send2dps.py *)
SndPrepare ==
    /\ pc = "snd_query"
    /\ \E ok \in BOOLEAN :
          IF ok
          THEN pc' = "snd_write_cps_sent" /\ UNCHANGED <<exc, faults>>
          ELSE Raised("database", "snd_except")
    /\ UNCHANGED <<script, disk, archived, remote, shared, mail, fetched_files,
                   sharepoint_enabled, sharepoint_success, sharepoint_error,
                   uploaded_urls, sftp_upload_success, sftp_error, upload_success,
                   upload_error, log, pipeline>>

SndFile == IF pc = "snd_write_cps_sent" THEN "cps_sent" ELSE "txt"

(* final_data.to_excel, then write_fixed_width_file *)
SndWrite ==
    /\ pc \in {"snd_write_cps_sent", "snd_write_txt"}
    /\ \E ok \in BOOLEAN :
          IF ok
          THEN /\ disk' = disk \cup {SndFile}
               /\ pc' = IF SndFile = "cps_sent" THEN "snd_write_txt" ELSE "snd_sftp"
               /\ log' = Append(log, LogRecord("info", "file written", << >>, << >>))
               /\ UNCHANGED <<exc, faults>>
          ELSE /\ Raised("write_" \o SndFile, "snd_except")
               /\ UNCHANGED <<disk, log>>
    /\ UNCHANGED <<script, archived, remote, shared, mail, fetched_files,
                   sharepoint_enabled, sharepoint_success, sharepoint_error,
                   uploaded_urls, sftp_upload_success, sftp_error, upload_success,
                   upload_error, pipeline>>

(* get_sftp_connection and upload_file_sftp inside their try *)
SndSftp ==
    /\ pc = "snd_sftp"
    /\ \E ok \in BOOLEAN :
          IF ok
          THEN /\ remote' = remote \cup {"txt"}
               /\ sftp_upload_success' = TRUE
               /\ pc' = "snd_share"
               /\ log' = Append(log, LogRecord("info", "Successfully uploaded", << >>, << >>))
               /\ UNCHANGED <<sftp_error, faults>>
          ELSE /\ sftp_error' = "upload failed"
               /\ faults' = faults \cup {"sftp_upload"}
               /\ pc' = "snd_sftp_mail"
               /\ log' = Append(log, LogRecord("error", "Failed to upload to DPS SFTP", << >>, << >>))
               /\ UNCHANGED <<remote, sftp_upload_success>>
    /\ UNCHANGED <<script, disk, archived, shared, mail, exc, fetched_files,
                   sharepoint_enabled, sharepoint_success, sharepoint_error,
                   uploaded_urls, upload_success, upload_error, pipeline>>

(* the notification of a failed SFTP upload; its own failure is a warning *)
SndSftpMail ==
    /\ pc = "snd_sftp_mail"
    /\ \E ok \in BOOLEAN :
          IF ok
          THEN /\ mail' = Append(mail, Mail("error_email", "SFTP Upload Failed",
                                            sftp_error, FALSE))
               /\ UNCHANGED <<faults, log>>
          ELSE /\ faults' = faults \cup {"notify"}
               /\ log' = Append(log, LogRecord("warning", "Failed to send SFTP error notification email", << >>, << >>))
               /\ UNCHANGED mail
    /\ pc' = "snd_share"
    /\ UNCHANGED <<script, disk, archived, remote, shared, exc, fetched_files,
                   sharepoint_enabled, sharepoint_success, sharepoint_error,
                   uploaded_urls, sftp_upload_success, sftp_error, upload_success,
                   upload_error, pipeline>>

(* upload_files_to_network_drive inside its try: True, False when a file   *)
(* was not copied, or an exception                                         *)
SndShare ==
    /\ pc = "snd_share"
    /\ \E outcome \in {"all", "some", "raise"} :
          IF outcome = "all"
          THEN /\ shared' = shared \cup Range(SendFiles)
               /\ upload_success' = TRUE
               /\ UNCHANGED <<upload_error, faults>>
          ELSE /\ \E copied \in (SUBSET Range(SendFiles)) \ {Range(SendFiles)} :
                     shared' = shared \cup (IF outcome = "some" THEN copied ELSE {})
               /\ upload_success' = FALSE
               /\ upload_error' = IF outcome = "some" THEN "Some files failed to upload"
                                  ELSE "upload failed"
               /\ faults' = faults \cup {"network_drive"}
    /\ log' = Append(log, LogRecord(IF upload_success' THEN "info" ELSE "warning",
                                    "network drive upload", << >>, << >>))
    /\ pc' = "snd_notify"
    /\ UNCHANGED <<script, disk, archived, remote, mail, exc, fetched_files,
                   sharepoint_enabled, sharepoint_success, sharepoint_error,
                   uploaded_urls, sftp_upload_success, sftp_error, pipeline>>

(* the closing notification of send2dps.py; its own failure is a warning *)
SndNotify ==
    /\ pc = "snd_notify"
    /\ \E ok \in BOOLEAN :
          IF ok
          THEN /\ mail' = Append(mail,
                    IF upload_success
                    THEN Mail("success_email", "Uploaded to Network Drive", NoError, FALSE)
                    ELSE Mail("error_email", "Network Drive Upload Failed",
                              upload_error, FALSE))
               /\ UNCHANGED faults
          ELSE /\ faults' = faults \cup {"notify"}
               /\ UNCHANGED mail
    /\ log' = Append(log, LogRecord("info", "completed successfully", << >>, << >>))
    /\ pc' = "completed"
    /\ UNCHANGED <<script, disk, archived, remote, shared, exc, fetched_files,
                   sharepoint_enabled, sharepoint_success, sharepoint_error,
                   uploaded_urls, sftp_upload_success, sftp_error, upload_success,
                   upload_error, pipeline>>

NextRun ==
    \/ Setup
    \/ RcvQuery
    \/ RcvConnect
    \/ FetchList
    \/ FetchGet
    \/ FetchRemove
    \/ RcvLoad
    \/ RcvWrite
    \/ RcvUpload
    \/ RcvNotify
    \/ RcvArchive
    \/ Except
    \/ SndPrepare
    \/ SndWrite
    \/ SndSftp
    \/ SndSftpMail
    \/ SndShare
    \/ SndNotify

SpecRun == InitRun /\ [][NextRun]_vars

(***************************************************************************)
(* Properties of the resolution step.  Resolved: the states in which       *)
(* handle_status_and_deduplicate has returned; dps_joined then still holds *)
(* the linked rows it was given.                                           *)
(***************************************************************************)
Resolved == pc \in {"resolved", "reported"}

Given == Range(dps_joined)
Output == Range(dps_total)

(* C1: the output of handle_status_and_deduplicate never contains two rows *)
(* with the same Person_ID                                                  *)
C1_OneRowPerPerson ==
    Resolved =>
        \A i, j \in 1..Len(dps_total) :
            i # j => dps_total[i].Person_ID # dps_total[j].Person_ID

C1_Witness ==
    /\ Resolved
    /\ \E o \in Output : \E r1, r2 \in Given :
          /\ r1.Person_ID = o.Person_ID /\ r2.Person_ID = o.Person_ID
          /\ r1.LAST_CONT # r2.LAST_CONT
          /\ r1.LAST_CONT # NaT /\ r2.LAST_CONT # NaT

(* The priority the statuses are documented to have. *)
Recognized == {"LOC", "ACTV", "CLRD", "CANC"}
Priority(s) ==
    CASE s \in {"LOC", "1LOC"}   -> 1
      [] s \in {"ACTV", "2ACTV"} -> 2
      [] s \in {"CLRD", "3CLRD"} -> 3
      [] s \in {"CANC", "4CANC"} -> 4

SameGroup(r, o) == r.Person_ID = o.Person_ID /\ r.LAST_CONT = o.LAST_CONT

(* C2: in a (Person_ID, LAST_CONT) group of linked rows the surviving     *)
(* status is one present in the group and no recognized status of the     *)
(* group has a higher priority (LOC > ACTV > CLRD > CANC), whatever the    *)
(* order of the rows                                                       *)
C2_HighestPriorityStatus ==
    Resolved =>
        \A o \in Output :
            /\ \E r \in Given : SameGroup(r, o) /\ Recode(r.STS) = o.STS
            /\ o.STS \in {"1LOC", "2ACTV", "3CLRD", "4CANC"} =>
                  \A r \in Given :
                      (SameGroup(r, o) /\ r.STS \in Recognized) =>
                          Priority(o.STS) <= Priority(r.STS)

(* a LOC row presented after an ACTV row of the same group wins *)
C2_Witness ==
    /\ Resolved
    /\ \E o \in Output : \E i, j \in 1..Len(dps_joined) :
          /\ i < j
          /\ SameGroup(dps_joined[i], o) /\ SameGroup(dps_joined[j], o)
          /\ dps_joined[i].STS = "ACTV" /\ dps_joined[j].STS = "LOC"
          /\ o.STS = "1LOC"

(* C4: the surviving row of a person carries the most recent LAST_CONT of *)
(* the rows of that person given to the resolution step                   *)
C4_MostRecentContact ==
    Resolved =>
        \A o \in Output :
            /\ \E r \in Given : SameGroup(r, o)
            /\ \A r \in Given :
                  (r.Person_ID = o.Person_ID /\ r.LAST_CONT # NaT) =>
                      r.LAST_CONT <= o.LAST_CONT

C4_Witness ==
    /\ Resolved
    /\ \E o \in Output : \E i, j \in 1..Len(dps_joined) :
          /\ i < j
          /\ dps_joined[i].Person_ID = o.Person_ID
          /\ dps_joined[j].Person_ID = o.Person_ID
          /\ dps_joined[i].LAST_CONT = o.LAST_CONT
          /\ dps_joined[j].LAST_CONT # NaT
          /\ dps_joined[j].LAST_CONT < o.LAST_CONT

(***************************************************************************)
(* The eligibility predicates as documented, on a linked row.              *)
(***************************************************************************)
(* the 18th birthday: same month and day 18 years later, Mar 1 for Feb 29 *)
Birthday18(dob) ==
    IF MonthOf(dob) = 2 /\ DayOf(dob) = 29
    THEN MkDate(YearOf(dob) + 18, 3, 1)
    ELSE MkDate(YearOf(dob) + 18, MonthOf(dob), DayOf(dob))

Under18(r) ==
    r.CPS_DOB = NaT \/ (r.LAST_CONT # NaT /\ Birthday18(r.CPS_DOB) > r.LAST_CONT)

Present(d) == d # NaT

IntersectsPeriod(r, sd, ed) ==
    /\ Present(r.LAST_CONT)
    /\ r.LAST_CONT <= ed
    /\ \/ r.LAST_CONT >= sd
       \/ /\ r.LAST_CONT <= sd
          /\ \/ ~Present(r.LOCATE_DT) /\ ~Present(r.CLR_CAN_DT)
             \/ Present(r.LOCATE_DT) /\ r.LOCATE_DT >= sd
             \/ Present(r.CLR_CAN_DT) /\ r.CLR_CAN_DT >= sd

InEpisode(r) ==
    /\ Present(r.LAST_CONT) /\ Present(r.Entered_Care) /\ Present(r.Exited_Care)
    /\ r.Entered_Care <= r.LAST_CONT
    /\ r.LAST_CONT <= r.Exited_Care

EpisodeWindow(r, sd, ed) == IntersectsPeriod(r, sd, ed) /\ InEpisode(r)

(* the linked rows: the output of join_dps_cps on the transformed tables *)
LinkedRows == Range(JoinDpsCps(dps_data, cps_pid))

(* C3 (as stated): a person with at least one linked row that satisfies   *)
(* the age and the episode-window predicate has a canonical case in the   *)
(* resolved output, whatever other linked rows the person has             *)
C3_FilterBeforeCollapse ==
    Resolved =>
        \A r \in LinkedRows :
            (r.Person_ID # NaN /\ Under18(r) /\ EpisodeWindow(r, start_date, end_date))
                => \E o \in Output : o.Person_ID = r.Person_ID

(* C5 (as stated): among the rows of a (Person_ID, LAST_CONT) group tied  *)
(* on the recoded status, the one with the earliest combined date         *)
(* (LOCATE_DT, else CLR_CAN_DT) is kept                                   *)
C5_EarliestCombinedDate ==
    Resolved =>
        \A o \in Output : \A r \in Given :
            (SameGroup(r, o) /\ Recode(r.STS) = o.STS)
                => NullsLast(o.CombDate) <= NullsLast(CombDate(r))

(* C6: a collapsed row is in the output exactly when it passes the        *)
(* episode-window test; no output row has LAST_CONT after period_end, or  *)
(* outside its care episode, or before period_start with its locate and   *)
(* clearance dates before period_start too                                *)
C6_EpisodeWindow ==
    Resolved =>
        /\ \A c \in Range(Phase2(Phase1(dps_joined))) :
              EpisodeWindow(c, start_date, end_date)
                 <=> \E o \in Output :
                        /\ o.Person_ID = c.Person_ID
                        /\ o.LAST_CONT = c.LAST_CONT
                        /\ o.LOCATE_DT = c.LOCATE_DT
                        /\ o.CLR_CAN_DT = c.CLR_CAN_DT
                        /\ o.Entered_Care = c.Entered_Care
                        /\ o.Exited_Care = c.Exited_Care
        /\ \A o \in Output :
              /\ o.LAST_CONT <= end_date
              /\ o.Entered_Care <= o.LAST_CONT /\ o.LAST_CONT <= o.Exited_Care
              /\ ~ /\ o.LAST_CONT < start_date
                   /\ Present(o.LOCATE_DT) \/ Present(o.CLR_CAN_DT)
                   /\ Present(o.LOCATE_DT) => o.LOCATE_DT < start_date
                   /\ Present(o.CLR_CAN_DT) => o.CLR_CAN_DT < start_date

(* a contact before the period, cleared during it, is included *)
C6_Witness ==
    /\ Resolved
    /\ \E o \in Output : o.LAST_CONT < start_date /\ o.CLR_CAN_DT >= start_date
                         /\ Present(o.LOCATE_DT) /\ o.LOCATE_DT < start_date

(* C7: after filter_valid_cases every row with a known birth date has its *)
(* 18th birthday strictly after LAST_CONT                                  *)
C7_StrictlyUnder18 ==
    pc = "filtered" =>
        \A r \in Range(dps_joined) :
            Present(r.CPS_DOB) =>
                Present(r.LAST_CONT) /\ Birthday18(r.CPS_DOB) > r.LAST_CONT

(* the 18th birthday falls on the last-contact date: the row is excluded *)
C7_Witness ==
    /\ pc = "filtered"
    /\ \E r \in LinkedRows :
          /\ Present(r.CPS_DOB)
          /\ Birthday18(r.CPS_DOB) = r.LAST_CONT
    /\ dps_joined = << >>

(* C8: the 18th-birthday date used by the age predicate is Mar 1 of Y+18  *)
(* for a birth date of Feb 29 of Y (the adjusted birth date being Mar 1   *)
(* of Y), and the same month and day of year+18 for any other birth date  *)
C8_LeapDayBirthday ==
    pc = "filtered" =>
        \A r \in Range(dps_joined) :
            Present(r.CPS_DOB) =>
                IF MonthOf(r.CPS_DOB) = 2 /\ DayOf(r.CPS_DOB) = 29
                THEN /\ r.CPS_DOB_adj = MkDate(YearOf(r.CPS_DOB), 3, 1)
                     /\ r.DT_turn_18 = MkDate(YearOf(r.CPS_DOB) + 18, 3, 1)
                ELSE /\ r.CPS_DOB_adj = r.CPS_DOB
                     /\ YearOf(r.DT_turn_18) = YearOf(r.CPS_DOB) + 18
                     /\ MonthOf(r.DT_turn_18) = MonthOf(r.CPS_DOB)
                     /\ DayOf(r.DT_turn_18) = DayOf(r.CPS_DOB)

C8_Witness ==
    /\ pc = "filtered"
    /\ \E r \in Range(dps_joined) :
          r.CPS_DOB = MkDate(2004, 2, 29) /\ r.DT_turn_18 = MkDate(2022, 3, 1)

(* number of rows of a table equal to a given row *)
Count(rows, row) == Cardinality({i \in 1..Len(rows) : rows[i] = row})

EventOf(r) == Event(r.CPS_NAME, r.CPS_DOB, r.LAST_CONT, r.LOCATE_DT,
                    r.CLR_CAN_DT, r.STS)

MatchCount(ev) == Cardinality({p \in Range(cps_pid) : KeyMatch(ev, p)})

(* C9: join_dps_cps yields, for an event whose key equals that of k >= 1  *)
(* distinct person rows, exactly k linked rows, and for an event without  *)
(* match exactly one linked row with null person fields; the linked rows  *)
(* are at least as many as the events                                     *)
C9_LeftJoinKeepsEvents ==
    pc = "joined" =>
        /\ Len(dps_joined) >= Len(dps_data)
        /\ \A ev \in Range(dps_data) :
              LET n == Count(dps_data, ev)
                  k == MatchCount(ev)
                  rows == SelectSeq(dps_joined, LAMBDA r : EventOf(r) = ev)
              IN IF k = 0
                 THEN /\ Len(rows) = n
                      /\ \A i \in 1..Len(rows) :
                            /\ rows[i].Person_ID = NaN /\ rows[i].Name = NullName
                            /\ rows[i].Entered_Care = NaT /\ rows[i].Exited_Care = NaT
                            /\ rows[i].Date_of_Birth = NaT
                 ELSE /\ Len(rows) = n * k
                      /\ \A p \in Range(cps_pid) :
                            KeyMatch(ev, p) =>
                               Count(rows, Linked(ev, p)) = n

(* one event matching two distinct person rows next to an unmatched one *)
C9_Witness ==
    /\ pc = "joined"
    /\ \E e1, e2 \in Range(dps_data) :
          /\ MatchCount(e1) = 2
          /\ MatchCount(e2) = 0
    /\ Len(dps_joined) = 3

(* C10 (as stated): an unmatched event that is under 18 and intersects    *)
(* the reporting period appears, with null linkage fields, in AllEvents   *)
C10_UnmatchedInAllEvents ==
    pc = "reported" =>
        \A r \in LinkedRows :
            (r.Person_ID = NaN /\ Under18(r)
               /\ IntersectsPeriod(r, start_date, end_date))
                => \E o \in Range(total_events) :
                      o.Person_ID = NaN /\ o.LAST_CONT = r.LAST_CONT

(* C10 (amended): the join keeps an unmatched event as a row with null    *)
(* linkage fields, but no row with a null Person_ID is in AllEvents       *)
C10_UnmatchedNeverReported ==
    /\ pc = "joined" =>
          \A ev \in Range(dps_data) :
              MatchCount(ev) = 0 =>
                  \E r \in Range(dps_joined) : EventOf(r) = ev /\ r.Person_ID = NaN
    /\ pc = "reported" =>
          \A o \in Range(total_events) : o.Person_ID # NaN

C10_Witness ==
    /\ pc = "reported"
    /\ \E r \in LinkedRows :
          /\ r.Person_ID = NaN /\ Under18(r)
          /\ IntersectsPeriod(r, start_date, end_date)
    /\ total_events # << >>

(***************************************************************************)
(* The join key as documented: stripped, without internal spaces, in upper *)
(* case.                                                                   *)
(***************************************************************************)
Upper(c) ==
    CASE c = "a" -> "A"
      [] c = "b" -> "B"
      [] OTHER   -> c

Normalize(name) ==
    LET t == RemoveSpaces(Strip(name))
    IN [i \in 1..Len(t) |-> Upper(t[i])]

(* C11 (as stated): an event and a person row whose names have the same   *)
(* normal form (they differ only in case or in spaces) and whose birth    *)
(* dates are equal are linked by join_dps_cps                              *)
C11_SymmetricNormalization ==
    pc = "joined" =>
        \A ev \in Range(dps_data) : \A p \in Range(cps_pid) :
            (/\ Normalize(ev.CPS_NAME) = Normalize(p.Name)
             /\ ev.CPS_DOB = p.Date_of_Birth /\ Present(ev.CPS_DOB))
                => \E r \in Range(dps_joined) :
                      EventOf(r) = ev /\ r.Person_ID = p.Person_ID /\ r.Name = p.Name

(* the recoding of the statuses as documented *)
RecodedAs(s) ==
    CASE s = "LOC"  -> "1LOC"
      [] s = "ACTV" -> "2ACTV"
      [] s = "CLRD" -> "3CLRD"
      [] s = "CANC" -> "4CANC"
      [] OTHER      -> s

LoggedValues == UNION {Range(log[i].strs) : i \in 1..Len(log)}

(* C12 (as stated): every status of the output is the recoding of a       *)
(* status given in its group, an unrecognized status being passed through *)
(* unchanged, and every unrecognized status given to the resolution step  *)
(* is written to the log                                                   *)
C12_FailOpenLogged ==
    Resolved =>
        /\ \A o \in Output :
              \E r \in Given : SameGroup(r, o) /\ o.STS = RecodedAs(r.STS)
        /\ \A r \in Given :
              r.STS \notin Recognized => r.STS \in LoggedValues

(* C13: handle_status_and_deduplicate applied, with the same window, to   *)
(* its own output returns that output                                      *)
C13_ResolveIdempotent ==
    Resolved =>
        HandleStatusAndDeduplicate(dps_total, start_date, end_date) = dps_total

(* an output that is the collapse of two rows of one person with          *)
(* different statuses                                                      *)
C13_Witness ==
    /\ Resolved
    /\ \E o \in Output : \E r1, r2 \in Given :
          /\ r1.Person_ID = o.Person_ID /\ r2.Person_ID = o.Person_ID
          /\ r1.STS # r2.STS
          /\ o.STS = "2ACTV"

(***************************************************************************)
(* Properties of the report builder.  An identifier of the roster and a    *)
(* Person_ID are the same value when the identifier is that number.        *)
(***************************************************************************)
Reported == pc = "reported"

SameValue(cid, pid) == cid.kind = "num" /\ cid.val = pid

OnRoster(pid) == \E e \in Range(sa_98) : SameValue(e.CHILD_PID, pid)

(* the rows of Report 2 that are the canonical case c *)
RowsOfCase(c) ==
    {row \in Range(not_in_impact) :
        /\ row.Person_ID \in {StrOfInt(c.Person_ID), StrOfInt(c.Person_ID) \o <<".", "0">>}
        /\ row.LAST_CONT = c.LAST_CONT /\ row.STS = c.STS}

(* C14: a canonical case has a row in Report 2 exactly when its Person_ID  *)
(* is not a CHILD_PID of the roster; Report 2 has no other rows; a row     *)
(* whose person is not in the person/county table has a null county, a row *)
(* whose county is not in the lookup a null region; Outcome is empty       *)
C14_NotInImpact ==
    Reported =>
        /\ \A c \in Range(total_events) :
              RowsOfCase(c) # {} <=> ~OnRoster(c.Person_ID)
        /\ \A row \in Range(not_in_impact) :
              /\ \E c \in Range(total_events) : row \in RowsOfCase(c)
              /\ row.Outcome = ""
              /\ (\A t \in Range(toad_data) : IdAsStr(t.ID_SA_PERSON) # row.Person_ID)
                    => row.Legal_County = NoneStr
              /\ (\A l \in Range(cnty_lookup) : l.Legal_County # row.Legal_County)
                    => row.Legal_Region = NoneStr

(* one case is on the roster, another is reported without county *)
C14_Witness ==
    /\ Reported
    /\ \E c \in Range(total_events) : OnRoster(c.Person_ID) /\ RowsOfCase(c) = {}
    /\ \E row \in Range(not_in_impact) :
          row.Legal_County = NoneStr /\ row.Legal_Region = NoneStr

(* the legal statuses of an actively missing child, as documented *)
ActiveCustody ==
    {"TMC", "PMC/ Rts Not Term", "PMC/ Rts Term (All)", "PMC/ Rts Term (Mother)",
     "PMC/Rts Term (Father)"}

HasActiveCase(cid) ==
    \E c \in Range(total_events) : c.STS = "2ACTV" /\ SameValue(cid, c.Person_ID)

InReport3(e) == \E row \in Range(not_in_dps) :
    /\ row.CHILD_PID = e.CHILD_PID
    /\ row.DT_RECOVERED = e.DT_RECOVERED
    /\ row.LEGAL_STATUS = e.LEGAL_STATUS

(* C15: a roster entry is in Report 3 exactly when its recovery date is    *)
(* null, its legal status is one of the five listed or null, and no        *)
(* canonical case with status 2ACTV has its CHILD_PID as Person_ID; Report *)
(* 3 has no other rows                                                     *)
C15_NotInDps ==
    Reported =>
        /\ \A e \in Range(sa_98) :
              InReport3(e) <=>
                 /\ e.DT_RECOVERED = NaT
                 /\ e.LEGAL_STATUS \in ActiveCustody \/ e.LEGAL_STATUS = NoneStr
                 /\ ~HasActiveCase(e.CHILD_PID)
        /\ \A row \in Range(not_in_dps) :
              \E e \in Range(sa_98) : row = e @@ [Outcome |-> ""]

(* a roster entry of a person whose only canonical case is not active *)
C15_Witness ==
    /\ Reported
    /\ \E e \in Range(sa_98) :
          /\ InReport3(e)
          /\ \E c \in Range(total_events) :
                SameValue(e.CHILD_PID, c.Person_ID) /\ c.STS # "2ACTV"

(* two identifiers denote the same person when their whitespace-stripped  *)
(* string representations are equal                                        *)
SamePerson(cid, pid) == Strip(IdAsStr(cid)) = StrOfInt(pid)

(* C16 (as stated): both membership tests compare the stripped string     *)
(* representations: a case is in Report 2 exactly when no roster entry     *)
(* denotes its person, and an active roster entry is in Report 3 exactly   *)
(* when no active case denotes its person                                  *)
C16_CoercedMembership ==
    Reported =>
        /\ \A c \in Range(total_events) :
              RowsOfCase(c) # {}
                 <=> ~ \E e \in Range(sa_98) : SamePerson(e.CHILD_PID, c.Person_ID)
        /\ \A e \in Range(Sa98Active(sa_98)) :
              InReport3(e)
                 <=> ~ \E c \in Range(total_events) :
                        c.STS = "2ACTV" /\ SamePerson(e.CHILD_PID, c.Person_ID)

(***************************************************************************)
(* Properties of the reporting period.                                     *)
(***************************************************************************)
PeriodKnown == pc \in {"period", "fy_dates", "dates"}

(* C17: the quarter is 1 for a run date in Dec/Jan/Feb, 2 in Mar/Apr/May, *)
(* 3 in Jun/Jul/Aug, 4 on Sep 1-19 and in Oct/Nov, none from Sep 20 to    *)
(* Sep 30; the fiscal year is the one containing the run date (calendar   *)
(* year + 1 from September on), the previous one for a run date in        *)
(* Sep/Oct/Nov; the label is FY<year>_Q<quarter>, FY<year> without quarter *)
C17_QueryPeriod ==
    PeriodKnown =>
        LET m == MonthOf(run_date)
            containing == IF m >= 9 THEN YearOf(run_date) + 1 ELSE YearOf(run_date)
        IN /\ m \in {12, 1, 2} => quarter = 1
           /\ m \in {3, 4, 5} => quarter = 2
           /\ m \in {6, 7, 8} => quarter = 3
           /\ (m \in {10, 11} \/ (m = 9 /\ DayOf(run_date) <= 19)) => quarter = 4
           /\ (m = 9 /\ DayOf(run_date) >= 20) => quarter = NoQuarter
           /\ fiscal_year = IF m \in {9, 10, 11} THEN containing - 1 ELSE containing
           /\ query_period =
                 IF quarter = NoQuarter
                 THEN <<"F", "Y">> \o StrOfInt(fiscal_year)
                 ELSE <<"F", "Y">> \o StrOfInt(fiscal_year)
                         \o <<"_", "Q", Digits[quarter + 1]>>

(* a run on September 20 reports the fiscal year just closed *)
C17_Witness ==
    /\ pc = "period"
    /\ run_date = MkDate(2025, 9, 20)
    /\ quarter = NoQuarter /\ fiscal_year = 2025
    /\ query_period = <<"F", "Y", "2", "0", "2", "5">>

(* C18: the fiscal year fy runs from Sep 1 of fy-1 to Aug 31 of fy; the   *)
(* quarters 1 to 3 are Sep 1-Nov 30 of fy-1, Dec 1 of fy-1 to Feb 28 of   *)
(* fy (also in a leap year) and Mar 1-May 31 of fy; quarter 4 is the      *)
(* fiscal year; any other quarter raises                                   *)
C18_QuarterDates ==
    /\ pc \in {"fy_dates", "dates"} =>
          fy_start_dt = MkDate(fiscal_year - 1, 9, 1)
             /\ fy_end_dt = MkDate(fiscal_year, 8, 31)
    /\ pc = "quarter_raised" => quarter \notin 1..4
    /\ (pc = "quarter_returned" \/ (pc = "dates" /\ quarter # NoQuarter)) =>
          /\ quarter \in 1..4
          /\ quarter = 1 => /\ start_date = MkDate(fiscal_year - 1, 9, 1)
                            /\ end_date = MkDate(fiscal_year - 1, 11, 30)
          /\ quarter = 2 => /\ start_date = MkDate(fiscal_year - 1, 12, 1)
                            /\ end_date = MkDate(fiscal_year, 2, 28)
          /\ quarter = 3 => /\ start_date = MkDate(fiscal_year, 3, 1)
                            /\ end_date = MkDate(fiscal_year, 5, 31)
          /\ quarter = 4 => /\ start_date = MkDate(fiscal_year - 1, 9, 1)
                            /\ end_date = MkDate(fiscal_year, 8, 31)

(* the second quarter of a leap fiscal year ends on Feb 28 *)
C18_Witness ==
    /\ pc = "quarter_returned"
    /\ quarter = 2 /\ IsLeap(fiscal_year)
    /\ end_date = MkDate(fiscal_year, 2, 28)

(***************************************************************************)
(* Properties of the outbound roster.                                      *)
(***************************************************************************)
(* a row that has a name, a birth date and a sex code *)
Writable(r) ==
    /\ r.Name # NullName /\ Strip(r.Name) # << >>
    /\ r.Date_of_Birth # NaT
    /\ r.Sex # NullName /\ Strip(r.Sex) # << >>

DigitValue(c) == CHOOSE n \in 0..9 : Digits[n + 1] = c

(* the date written as YYYY-MM-DD in the characters 31 to 40 of a line *)
DateOnLine(line) ==
    MkDate(DigitValue(line[31]) * 1000 + DigitValue(line[32]) * 100
              + DigitValue(line[33]) * 10 + DigitValue(line[34]),
           DigitValue(line[36]) * 10 + DigitValue(line[37]),
           DigitValue(line[39]) * 10 + DigitValue(line[40]))

LineOf(line, r) ==
    /\ \A i \in 1..30 :
          line[i] = IF i <= Len(Strip(r.Name)) THEN Strip(r.Name)[i] ELSE " "
    /\ \A i \in {31, 32, 33, 34, 36, 37, 39, 40} : line[i] \in Range(Digits)
    /\ line[35] = "-" /\ line[38] = "-"
    /\ DateOnLine(line) = r.Date_of_Birth
    /\ line[41] = Strip(r.Sex)[1]

(* C19: every line of the file has 41 characters: the stripped name of a  *)
(* writable row in 30 columns (cut or padded with spaces), its birth date *)
(* as YYYY-MM-DD and the first character of its sex code; every writable  *)
(* row has its line and a row that is not writable has none               *)
C19_FixedWidthLines ==
    pc = "written" =>
        /\ \A k \in 1..Len(txt_file) :
              /\ Len(txt_file[k]) = 41
              /\ \E r \in Range(final_data) : Writable(r) /\ LineOf(txt_file[k], r)
        /\ \A r \in Range(final_data) :
              Writable(r) => \E k \in 1..Len(txt_file) : LineOf(txt_file[k], r)
        /\ Len(txt_file) <= Cardinality({r \in Range(final_data) : Writable(r)})

(* a name longer than 30 characters has been written *)
C19_Witness ==
    /\ pc = "written"
    /\ \E r \in Range(final_data) : Writable(r) /\ Len(Strip(r.Name)) > 30
    /\ txt_file # << >>

(* the tokens that are not a surname of their own, as documented *)
Stopwords ==
    {<<"L", "A">>, <<"M", "C">>, <<"D", "E">>, <<"S", "T">>, <<"S", "T", ".">>,
     <<"D", "E", "L">>, <<"J", "R">>, <<"J", "R", ".">>, <<"A">>, <<"O">>}

(* all the parts of a name between two delimiters *)
PartsOf(name, delimiter) == Range(SplitN(name, delimiter, Len(name)))

Letters(name) == SelectSeq(name, LAMBDA c : c \notin {"-", " "})

(* C20 (as stated): for a last name with hyphens the variants hold the    *)
(* name without its hyphens and every hyphen-delimited part; for a last   *)
(* name with spaces they hold every space-delimited part that is not a    *)
(* stopword; no variant is blank                                           *)
C20_EveryPartEmitted ==
    pc = "send_processed" =>
        /\ \A r \in Range(filtered_data) :
              (r.First_Name = ABC /\ r.Last_Name # NullName) =>
                 LET last == StrUpper(Unidecode(r.Last_Name))
                     emitted == {p.Last_Name : p \in Range(processed_data)}
                 IN /\ "-" \in Range(last) =>
                          \A v \in {Letters(last)} \cup
                                   {Letters(part) : part \in PartsOf(last, "-")} :
                              v # << >> => v \in emitted
                    /\ " " \in Range(last) =>
                          \A part \in PartsOf(last, " ") \ Stopwords :
                              Letters(part) # << >> => Letters(part) \in emitted
        /\ \A p \in Range(processed_data) : Strip(p.Last_Name) # << >>

(***************************************************************************)
(* Properties of the runs.                                                 *)
(***************************************************************************)
(* main() has returned or has been left by an exception *)
Terminated == pc \in {"completed", "exited"}

UploadFaults == {"sharepoint", "sftp_upload", "network_drive"}

Kept(files) == files \subseteq disk \cup archived

Notified(subject, detail) ==
    \E k \in 1..Len(mail) : mail[k].subject = subject /\ mail[k].detail = detail

(* C21: a failed upload does not abort the run.  In receivedps a failed    *)
(* SharePoint upload leaves the three reports on disk and never is the     *)
(* exception that ends main(); when nothing else fails the notification    *)
(* of the failure is sent, the five files are archived and main() ends     *)
(* normally.  In send2dps a failed SFTP or network-drive upload leaves the *)
(* two files on disk, and when nothing else fails the failure is notified  *)
(* and main() ends normally.                                               *)
C21_UploadFailureNonFatal ==
    /\ exc \notin UploadFaults
    /\ (script = "receivedps.py" /\ "sharepoint" \in faults) =>
          /\ Kept(Range(ReportFiles))
          /\ (Terminated /\ faults \subseteq UploadFaults) =>
                /\ pc = "completed"
                /\ Notified("SharePoint Upload Failed", sharepoint_error)
                /\ sharepoint_error # NoError
                /\ Range(ArchiveOrder) \subseteq archived
    /\ (script = "send2dps.py" /\ faults \cap UploadFaults # {}) =>
          /\ Range(SendFiles) \subseteq disk
          /\ (Terminated /\ faults \subseteq UploadFaults) =>
                /\ pc = "completed"
                /\ "sftp_upload" \in faults =>
                      Notified("SFTP Upload Failed", sftp_error) /\ sftp_error # NoError
                /\ "network_drive" \in faults =>
                      Notified("Network Drive Upload Failed", upload_error)
                         /\ upload_error # NoError

(* receivedps has ended normally after a failed SharePoint upload *)
C21_Witness ==
    /\ script = "receivedps.py" /\ pc = "completed"
    /\ faults = {"sharepoint"}
    /\ Range(ReportFiles) \subseteq archived

(* C22 (as stated): a failure of the notification email does not abort    *)
(* the run: it never is the exception that ends main(), and when only the *)
(* notification (and uploads) failed main() completes, in receivedps      *)
(* after archiving the input and output files                             *)
C22_NotificationFailureNonFatal ==
    "notify" \in faults =>
        /\ exc # "notify"
        /\ (Terminated /\ faults \subseteq UploadFaults \cup {"notify"}) =>
              /\ pc = "completed"
              /\ script = "receivedps.py" => Range(ArchiveOrder) \subseteq archived

(* C23 (as stated): a run in which an exception was raised and not        *)
(* recovered ends with that exception raised again after an error mail    *)
(* with the message and the stack trace, and is never completed           *)
C23_ExceptionNotifiedAndReraised ==
    exc # NoException =>
        /\ pc # "completed"
        /\ pc = "exited" =>
              \E k \in 1..Len(mail) :
                  /\ mail[k].to = "error_email"
                  /\ mail[k].detail = exc
                  /\ mail[k].trace

(* C24 (as stated): when a run of receivedps has stopped, all three       *)
(* reports have been written or none has                                   *)
C24_AllOrNothing ==
    (script = "receivedps.py" /\ Terminated) =>
        LET written == Range(ReportFiles) \cap (disk \cup archived)
        IN written = {} \/ written = Range(ReportFiles)

(* C25: fetch_dps_files removes a remote file only after it has been      *)
(* downloaded; when the download of a file fails the file stays on the    *)
(* server and its key is not returned; when the removal fails the key is  *)
(* returned, the file is on disk and the failure is not raised            *)
C25_RemoveAfterDownload ==
    /\ [](script = "receivedps.py" =>
            \A f \in Range(FetchOrder) :
               /\ ("get_" \o f) \in faults => f \in remote /\ f \notin fetched_files
               /\ ("remove_" \o f) \in faults =>
                     /\ f \in fetched_files /\ f \in remote
                     /\ Kept({f})
                     /\ exc # "remove_" \o f
               /\ f \in fetched_files => Kept({f}))
    /\ [][script = "receivedps.py" =>
             \A f \in remote \ remote' : f \in fetched_files]_vars

(* the fetch has ended with one download failed and one removal failed *)
C25_Witness ==
    /\ pc = "rcv_load"
    /\ "remove_dps_results" \in faults /\ "get_dps_counts" \in faults
    /\ fetched_files = {"dps_results"}
    /\ remote = {"dps_results", "dps_counts"}

(* C26 (as stated): the results file is fetched only when it is not on    *)
(* disk, and when it is on disk a failure of the SFTP connection does not *)
(* abort the run                                                           *)
C26_ExistingFileNoSftp ==
    script = "receivedps.py" =>
        /\ pc \in {"fetch_list", "fetch_get_results", "fetch_get_counts"} =>
              fetched_files \cap {"dps_results"} = disk \cap {"dps_results"}
        /\ ("dps_results" \in disk /\ fetched_files = {}) => exc # "sftp_connect"

(***************************************************************************)
(* Properties of the rows kept by the resolution step.                     *)
(***************************************************************************)
(* the output row o is the linked row g with its status recoded *)
IsRow(o, g) ==
    /\ o.STS = RecodedAs(g.STS)
    /\ \A col \in (DOMAIN o) \ {"STS", "CombDate"} : o[col] = g[col]

(* C27 (as stated): every row of the output is one of the linked rows     *)
(* given to handle_status_and_deduplicate: all its fields come from the   *)
(* same row                                                                *)
C27_OutputIsInputRow ==
    Resolved => \A o \in Output : \E g \in Given : IsRow(o, g)

(* C28 (as stated): when the (Person_ID, LAST_CONT) group of an output    *)
(* row holds a row with a recognized status, the status kept is a         *)
(* recognized one                                                          *)
C28_RecognizedWins ==
    Resolved =>
        \A o \in Output :
            (\E g \in Given : SameGroup(g, o) /\ g.STS \in Recognized)
               => o.STS \in {RecodedAs(st) : st \in Recognized}

(***************************************************************************)
(* Properties of the expansion of the names.                               *)
(***************************************************************************)
NonBlank(name) == name # NullName /\ Strip(name) # << >>

(* a name in upper case, without accents and without its delimiters *)
FullName(name) ==
    SelectSeq(StrUpper(Unidecode(name)), LAMBDA c : c \notin {"-", "'", " "})

(* C29 (as stated): every record given to the expansion with a non-blank  *)
(* first name and a non-blank last name has, in the final dataset, the    *)
(* row of its full first name and full last name without delimiters       *)
C29_FullVariantKept ==
    pc = "send_final" =>
        \A r \in Range(filtered_data) :
            (NonBlank(r.First_Name) /\ NonBlank(r.Last_Name)) =>
                \E f \in Range(final_data) :
                    /\ f.Person_ID = StrOfInt(r.Person_ID)
                    /\ f.First_Name = FullName(r.First_Name)
                    /\ f.Last_Name = FullName(r.Last_Name)

(***************************************************************************)
(* Properties of the enrichment of Report 2.                               *)
(***************************************************************************)
RowCount(c) ==
    Cardinality({i \in 1..Len(not_in_impact) : not_in_impact[i] \in RowsOfCase(c)})

(* C30 (as stated): Report 2 has exactly one row for every canonical case *)
(* whose Person_ID is not on the roster, and no other row                  *)
C30_OneRowPerCase ==
    Reported =>
        /\ \A c \in Range(total_events) : ~OnRoster(c.Person_ID) => RowCount(c) = 1
        /\ Len(not_in_impact) =
              Cardinality({i \in 1..Len(total_events) :
                              ~OnRoster(total_events[i].Person_ID)})

====
